---- MODULE Spec2Model ----
(***************************************************************************)
(* tinyWebSynth (tinySpeak): the 5-channel chiptune synthesis engine, the  *)
(* 16-step sequencer with its drift-corrected clock, and the WebSocket     *)
(* command decoder, as a state machine.                                    *)
(*                                                                         *)
(* Number representation.  The program's floats are modelled in fixed      *)
(* point: envelope levels, decays and pitch multipliers in units of        *)
(* 1/UNIT, frequencies in units of 1/FREQ_ONE Hz, and the oscillator phase *)
(* in units of 1/CYCLE of a full turn (2*PI), chosen so that the phase     *)
(* increment 2*PI*f/SAMPLE_RATE of a frequency f is f's own fixed-point    *)
(* value.  Command texts are sequences of one-character strings and are    *)
(* parsed the way String::indexOf/substring/toInt/toFloat parse them.      *)
(* millis() is a natural number; its wrap at 2^32 ms lies outside the      *)
(* bounds explored.                                                        *)
(***************************************************************************)
EXTENDS Integers, Sequences, FiniteSets, TLC

-----------------------------------------------------------------------------
(* Program constants *)

SAMPLE_RATE == 44100
BUF_SZ == 64
NUM_CH == 5
NUM_STEPS == 16
NUM_MEL_TRK == 2
NUM_DRM_TRK == 3

CH_LEAD == 0
CH_BASS == 1
CH_KICK == 2
CH_SNARE == 3
CH_HAT == 4

\* fixed-point scales of the float fields
UNIT == 10000
FREQ_ONE == 1000
CYCLE == SAMPLE_RATE * FREQ_ONE
HALF_CYCLE == CYCLE \div 2
QUARTER_CYCLE == CYCLE \div 4

\* envLvl < 0.001f
ENV_EPS == 10
\* envDcy / pitchMul literals
DCY_NOTE == 9998
DCY_KICK == 9997
DCY_SNARE == 9988
DCY_HAT == 9970
MUL_KICK == 9991
KICK_START == 200 * FREQ_ONE
KICK_FLOOR == 30 * FREQ_ONE

SEED_SNARE == 44257
SEED_HAT == 37250
LFSR_TAPS == 46080

GAMP_INIT == 10000
GAMP_MAX == 30000
GAMP_STEP == 1000
BPM_INIT == 120
BPM_MIN == 40
BPM_MAX == 240
SAMPLE_MAX == 32767

-----------------------------------------------------------------------------
(* Arithmetic helpers *)

\* C integer division and float-to-integer casts truncate toward zero
TruncDiv(a, b) == IF a >= 0 THEN a \div b ELSE -((-a) \div b)

\* Arduino's constrain(amt, low, high) macro
constrain(amt, low, high) == IF amt < low THEN low ELSE IF amt > high THEN high ELSE amt

RECURSIVE BitXor(_, _, _)
\* a ^ b on the low n bits
BitXor(a, b, n) ==
    IF n = 0 THEN 0
    ELSE ((a + b) % 2) + 2 * BitXor(a \div 2, b \div 2, n - 1)

\* mutant: the shift without the feedback taps
lfsrNext_NoTaps(s) == s \div 2

\* uint16_t lfsrNext(uint16_t s)
lfsrNext(s) == BitXor(s \div 2, IF s % 2 = 1 THEN LFSR_TAPS ELSE 0, 16)

-----------------------------------------------------------------------------
(* Audio engine.  A is a record of the program's globals, of which these  *)
(* operators read and write the fields ch and nlfsr.                      *)

\* struct Channel default member initialisers
ChannelDefault ==
    [phase |-> 0, curFreq |-> 440 * FREQ_ONE, waveType |-> 0, envLvl |-> 0,
     envDcy |-> DCY_NOTE, active |-> FALSE, isNoise |-> FALSE, pitchMul |-> UNIT]

\* mutant: a note that is held at full level
trigNote_Sustain(A, c, freq, wave) ==
    [A EXCEPT !.ch[c] =
        [phase |-> 0, curFreq |-> freq, waveType |-> wave, envLvl |-> UNIT,
         envDcy |-> UNIT, active |-> TRUE, isNoise |-> FALSE, pitchMul |-> UNIT]]

trigNote(A, c, freq, wave) ==
    [A EXCEPT !.ch[c] =
        [phase |-> 0, curFreq |-> freq, waveType |-> wave, envLvl |-> UNIT,
         envDcy |-> DCY_NOTE, active |-> TRUE, isNoise |-> FALSE, pitchMul |-> UNIT]]

releaseNote(A, c) ==
    [A EXCEPT !.ch[c].active = FALSE, !.ch[c].envLvl = 0]

trigKick(A) ==
    [A EXCEPT !.ch[CH_KICK] =
        [phase |-> 0, curFreq |-> KICK_START, waveType |-> 0, envLvl |-> UNIT,
         envDcy |-> DCY_KICK, active |-> TRUE, isNoise |-> FALSE, pitchMul |-> MUL_KICK]]

\* mutant: the snare triggered at half level
trigSnare_Soft(A) ==
    [A EXCEPT !.ch[CH_SNARE].envLvl = UNIT \div 2,
              !.ch[CH_SNARE].envDcy = DCY_SNARE,
              !.ch[CH_SNARE].active = TRUE,
              !.ch[CH_SNARE].isNoise = TRUE,
              !.ch[CH_SNARE].pitchMul = UNIT,
              !.nlfsr[0] = SEED_SNARE]

trigSnare(A) ==
    [A EXCEPT !.ch[CH_SNARE].envLvl = UNIT,
              !.ch[CH_SNARE].envDcy = DCY_SNARE,
              !.ch[CH_SNARE].active = TRUE,
              !.ch[CH_SNARE].isNoise = TRUE,
              !.ch[CH_SNARE].pitchMul = UNIT,
              !.nlfsr[0] = SEED_SNARE]

\* mutant: the Hat triggered without reseeding its noise register
trigHat_NoSeed(A) ==
    [A EXCEPT !.ch[CH_HAT].envLvl = UNIT,
              !.ch[CH_HAT].envDcy = DCY_HAT,
              !.ch[CH_HAT].active = TRUE,
              !.ch[CH_HAT].isNoise = TRUE,
              !.ch[CH_HAT].pitchMul = UNIT]

trigHat(A) ==
    [A EXCEPT !.ch[CH_HAT].envLvl = UNIT,
              !.ch[CH_HAT].envDcy = DCY_HAT,
              !.ch[CH_HAT].active = TRUE,
              !.ch[CH_HAT].isNoise = TRUE,
              !.ch[CH_HAT].pitchMul = UNIT,
              !.nlfsr[1] = SEED_HAT]

\* the waveform switch of synthSample: the sample of a tonal channel
WaveSample(k, amp) ==
    CASE k.waveType = 0 -> IF k.phase < HALF_CYCLE THEN amp ELSE -amp
      [] k.waveType = 1 ->
            TruncDiv(TruncDiv(2 * k.phase - CYCLE, CYCLE \div UNIT) * amp, UNIT)
      [] k.waveType = 2 -> IF k.phase < QUARTER_CYCLE THEN amp ELSE -amp
      [] OTHER -> 0

\* phase advance with the single wrap of synthSample
PhaseNext(k) ==
    LET p == k.phase + k.curFreq
    IN  IF p >= CYCLE THEN p - CYCLE ELSE p

\* mutant: the sweep stopped one multiplication above the floor
FreqNext_Early(k) ==
    IF k.pitchMul # UNIT
    THEN LET f == (k.curFreq * k.pitchMul) \div UNIT
         IN  IF f < KICK_FLOOR THEN k.curFreq ELSE f
    ELSE k.curFreq

\* kick pitch sweep
FreqNext(k) ==
    IF k.pitchMul # UNIT
    THEN LET f == (k.curFreq * k.pitchMul) \div UNIT
         IN  IF f < KICK_FLOOR THEN KICK_FLOOR ELSE f
    ELSE k.curFreq

\* mutant: the phase of a channel that is not rendered keeps running
synthSample_Creep(A, c, amplitude) ==
    LET k == A.ch[c]
    IN  IF ~k.active \/ k.envLvl < ENV_EPS
        THEN [A |-> [A EXCEPT !.ch[c].active = FALSE, !.ch[c].phase = PhaseNext(k)],
              val |-> 0]
        ELSE
          LET amp == TruncDiv(amplitude * k.envLvl, NUM_CH * UNIT)
              ni  == IF c = CH_SNARE THEN 0 ELSE 1
              reg == lfsrNext(A.nlfsr[ni])
              env == (k.envLvl * k.envDcy) \div UNIT
          IN  IF k.isNoise
              THEN [A |-> [A EXCEPT !.nlfsr[ni] = reg, !.ch[c].envLvl = env],
                    val |-> IF reg % 2 = 1 THEN amp ELSE -amp]
              ELSE [A |-> [A EXCEPT !.ch[c].phase = PhaseNext(k),
                                    !.ch[c].curFreq = FreqNext(k),
                                    !.ch[c].envLvl = env],
                    val |-> WaveSample(k, amp)]

\* mutant: one noise register shared by Snare and Hat
synthSample_OneReg(A, c, amplitude) ==
    LET k == A.ch[c]
    IN  IF ~k.active \/ k.envLvl < ENV_EPS
        THEN [A |-> [A EXCEPT !.ch[c].active = FALSE], val |-> 0]
        ELSE
          LET amp == TruncDiv(amplitude * k.envLvl, NUM_CH * UNIT)
              reg == lfsrNext(A.nlfsr[1])
              env == (k.envLvl * k.envDcy) \div UNIT
          IN  IF k.isNoise
              THEN [A |-> [A EXCEPT !.nlfsr[1] = reg, !.ch[c].envLvl = env],
                    val |-> IF reg % 2 = 1 THEN amp ELSE -amp]
              ELSE [A |-> [A EXCEPT !.ch[c].phase = PhaseNext(k),
                                    !.ch[c].curFreq = FreqNext(k),
                                    !.ch[c].envLvl = env],
                    val |-> WaveSample(k, amp)]

\* int16_t synthSample(int c): [A |-> engine after the call, val |-> the sample]
synthSample(A, c, amplitude) ==
    LET k == A.ch[c]
    IN  IF ~k.active \/ k.envLvl < ENV_EPS
        THEN [A |-> [A EXCEPT !.ch[c].active = FALSE], val |-> 0]
        ELSE
          LET amp == TruncDiv(amplitude * k.envLvl, NUM_CH * UNIT)
              ni  == IF c = CH_SNARE THEN 0 ELSE 1
              reg == lfsrNext(A.nlfsr[ni])
              env == (k.envLvl * k.envDcy) \div UNIT
          IN  IF k.isNoise
              THEN [A |-> [A EXCEPT !.nlfsr[ni] = reg, !.ch[c].envLvl = env],
                    val |-> IF reg % 2 = 1 THEN amp ELSE -amp]
              ELSE [A |-> [A EXCEPT !.ch[c].phase = PhaseNext(k),
                                    !.ch[c].curFreq = FreqNext(k),
                                    !.ch[c].envLvl = env],
                    val |-> WaveSample(k, amp)]

RECURSIVE MixFrom(_, _, _, _)
\* for (c = ...; c < NUM_CH; c++) mix += synthSample(c)
MixFrom(A, c, mix, amplitude) ==
    IF c = NUM_CH THEN [A |-> A, mix |-> mix]
    ELSE LET r == synthSample(A, c, amplitude)
         IN  MixFrom(r.A, c + 1, mix + r.val, amplitude)

\* one output frame: the mix of the five channels, hard-clamped
Frame(A, amplitude) ==
    LET r == MixFrom(A, 0, 0, amplitude)
    IN  [A |-> r.A, out |-> constrain(r.mix, -SAMPLE_MAX, SAMPLE_MAX)]

RECURSIVE Burst(_, _, _)
\* n consecutive frames (n >= 1), each written to the left and the right slot
\* of buf; the run is split in halves to keep the evaluation shallow
Burst(A, n, amplitude) ==
    IF n = 1
    THEN LET r == Frame(A, amplitude)
         IN  [buf |-> <<r.out, r.out>>, A |-> r.A]
    ELSE LET h == n \div 2
             x == Burst(A, h, amplitude)
             y == Burst(x.A, n - h, amplitude)
         IN  [buf |-> x.buf \o y.buf, A |-> y.A]

-----------------------------------------------------------------------------
(* Sequencer *)

\* struct MelStep { float freq = 0; int wave = 0; }
MelStepDefault == [freq |-> 0, wave |-> 0]

\* mutant: the division by 4 forgotten (a quarter note per step)
StepDur_Quarter(bpm) == 60000 \div bpm

\* unsigned long stepDur = 60000UL / (unsigned long)seqBPM / 4
StepDur(bpm) == (60000 \div bpm) \div 4

RECURSIVE trigMelody_NonZero(_, _, _)
\* mutant: a step triggers whenever its frequency differs from 0
trigMelody_NonZero(A, s, t) ==
    IF t = NUM_MEL_TRK THEN A
    ELSE LET c == IF t = 0 THEN CH_LEAD ELSE CH_BASS
             cell == A.melPat[t][s]
         IN  trigMelody_NonZero(IF cell.freq # 0 THEN trigNote(A, c, cell.freq, cell.wave)
                                ELSE releaseNote(A, c),
                                s, t + 1)

\* the melody-track loop of trigSequencerStep, from track t on
RECURSIVE trigMelody(_, _, _)
trigMelody(A, s, t) ==
    IF t = NUM_MEL_TRK THEN A
    ELSE LET c == IF t = 0 THEN CH_LEAD ELSE CH_BASS
             cell == A.melPat[t][s]
         IN  trigMelody(IF cell.freq > 0 THEN trigNote(A, c, cell.freq, cell.wave)
                        ELSE releaseNote(A, c),
                        s, t + 1)

\* int c = (t == 0) ? CH_LEAD : CH_BASS
ChanOf(t) == IF t = 0 THEN CH_LEAD ELSE CH_BASS

\* the drum tracks of trigSequencerStep
trigDrums(A, s) ==
    LET k == IF A.drmPat[0][s] THEN trigKick(A) ELSE A
        n == IF k.drmPat[1][s] THEN trigSnare(k) ELSE k
    IN  IF n.drmPat[2][s] THEN trigHat(n) ELSE n

\* mutant: a Lead that is sounding is left to the live player
trigSequencerStep_KeepLive(A, s) ==
    LET m == trigDrums(trigMelody(A, s, 0), s)
    IN  IF A.ch[CH_LEAD].active THEN [m EXCEPT !.ch[CH_LEAD] = A.ch[CH_LEAD]] ELSE m

trigSequencerStep(A, s) ==
    LET m == trigMelody(A, s, 0)
        k == IF m.drmPat[0][s] THEN trigKick(m) ELSE m
        n == IF k.drmPat[1][s] THEN trigSnare(k) ELSE k
    IN  IF n.drmPat[2][s] THEN trigHat(n) ELSE n

-----------------------------------------------------------------------------
(* WAV export *)

WBUF_SZ == 256
MAX_LOOPS == 8

\* the byte widths of the fields writeWAVHeader writes, in order
HeaderBytes == 4 + 4 + 4 + 4 + 4 + 2 + 2 + 4 + 4 + 2 + 2 + 4 + 4

\* writeWAVHeader(f, totalSamples): the numeric fields of the header and its
\* length in bytes (the uint32_t values stay far below 2^32 for 1..8 loops)
writeWAVHeader(totalSamples) ==
    LET dataBytes == totalSamples * 4
        chunkSize == 36 + dataBytes
    IN  [chunkSize |-> chunkSize, fmtSize |-> 16, audioFormat |-> 1, numChannels |-> 2,
         sampleRate |-> SAMPLE_RATE, byteRate |-> SAMPLE_RATE * 4, blockAlign |-> 4,
         bitsPerSample |-> 16, dataBytes |-> dataBytes, bytes |-> HeaderBytes]

\* "Compute sizes" of exportPatternToWAV
\* mutant: the frames per step taken from the exact step length
exportSizes_Exact(bpm, numLoops) ==
    LET samplesPerStep == (SAMPLE_RATE * 15000) \div (bpm * 1000)
    IN  [numLoops |-> numLoops, samplesPerStep |-> samplesPerStep,
         totalSamples |-> samplesPerStep * NUM_STEPS * numLoops]

exportSizes(bpm, numLoops) ==
    LET stepDurMs == (60000 \div bpm) \div 4
        samplesPerStep == (SAMPLE_RATE * stepDurMs) \div 1000
    IN  [numLoops |-> numLoops, samplesPerStep |-> samplesPerStep,
         totalSamples |-> samplesPerStep * NUM_STEPS * numLoops]

\* mutant: the channels reset before the card is known to be usable
exportOpen_ResetFirst(G, w, sd) ==
    [opened |-> sd = "ok",
     wav |-> IF sd = "nocard" THEN w ELSE [exists |-> FALSE],
     G |-> [G EXCEPT !.ch = [c \in DOMAIN G.ch |->
                [phase |-> 0, curFreq |-> 440 * FREQ_ONE, waveType |-> 0, envLvl |-> 0,
                 envDcy |-> DCY_NOTE, active |-> FALSE, isNoise |-> FALSE, pitchMul |-> UNIT]]]]

\* exportPatternToWAV up to the open of the file, with the card's answer sd:
\* "nocard" (SD.begin fails), "noopen" (SD.open fails) or "ok"; an old file of
\* that name is removed before the open
exportOpen(G, w, sd) ==
    [opened |-> sd = "ok",
     wav |-> IF sd = "nocard" THEN w ELSE [exists |-> FALSE],
     G |-> G]

\* mutant: the channel reset left out
exportReset_Keep(A) == A

\* for (c...) ch[c] = Channel()
exportReset(A) == [A EXCEPT !.ch = [c \in DOMAIN A.ch |-> ChannelDefault]]

\* the frame of the live burst in loop(): mix = 0; the five synthSample calls
\* in channel order; out = constrain(mix, -32767, 32767); buf[i*2] = out;
\* buf[i*2+1] = out
liveFrame(A, amplitude) ==
    LET r == MixFrom(A, 0, 0, amplitude)
        out == constrain(r.mix, -SAMPLE_MAX, SAMPLE_MAX)
    IN  [A |-> r.A, left |-> out, right |-> out]

\* mutant: the export computes the frame and leaves the channels where they were
exportFrame_Stale(A, amplitude) ==
    LET r == MixFrom(A, 0, 0, amplitude)
        out == constrain(r.mix, -SAMPLE_MAX, SAMPLE_MAX)
    IN  [A |-> A, left |-> out, right |-> out]

\* the frame of the export's sample loop: mix = 0; the five synthSample calls
\* in channel order; out = constrain(mix, -32767, 32767); wbuf[wbufPos*2] =
\* out; wbuf[wbufPos*2+1] = out
exportFrame(A, amplitude) ==
    LET r == MixFrom(A, 0, 0, amplitude)
        out == constrain(r.mix, -SAMPLE_MAX, SAMPLE_MAX)
    IN  [A |-> r.A, left |-> out, right |-> out]

RECURSIVE exportBurst(_, _, _)
\* n consecutive frames of the export (n >= 1), split in halves like Burst
exportBurst(A, n, amplitude) ==
    IF n = 1
    THEN LET r == exportFrame(A, amplitude)
         IN  [buf |-> <<r.left, r.right>>, A |-> r.A]
    ELSE LET h == n \div 2
             x == exportBurst(A, h, amplitude)
             y == exportBurst(x.A, n - h, amplitude)
         IN  [buf |-> x.buf \o y.buf, A |-> y.A]

\* no channel is active: synthSample returns 0 for each and changes nothing
Silent(A) == \A c \in DOMAIN A.ch : ~A.ch[c].active

\* Exported frames are kept as runs: <<[v |-> value, n |-> count], ...>> stands
\* for count frames with the same value in the left and the right slot, one
\* run after the other, adjacent runs always differing in value.

\* the runs r followed by n more frames of value v
RunPush(r, v, n) ==
    IF n = 0 THEN r
    ELSE IF r # <<>> /\ r[Len(r)].v = v THEN [r EXCEPT ![Len(r)].n = @ + n]
    ELSE Append(r, [v |-> v, n |-> n])

\* the runs a followed by the runs b
RunCat(a, b) ==
    IF a = <<>> THEN b
    ELSE IF b = <<>> THEN a
    ELSE IF a[Len(a)].v = b[1].v
         THEN RunPush(SubSeq(a, 1, Len(a) - 1), b[1].v, a[Len(a)].n + b[1].n) \o Tail(b)
    ELSE a \o b

RECURSIVE RunsOf(_, _, _)
\* the runs of frames lo .. hi of the interleaved buffer b (split in halves
\* like Burst)
RunsOf(b, lo, hi) ==
    IF lo = hi THEN <<[v |-> b[2 * lo - 1], n |-> 1]>>
    ELSE LET mid == (lo + hi) \div 2
         IN  RunCat(RunsOf(b, lo, mid), RunsOf(b, mid + 1, hi))

RECURSIVE exportRender(_, _, _)
\* the sample loop of one exported pattern step: n frames, each written to the
\* left and the right slot of wbuf; frames of an engine with no active channel
\* are zeros and leave it as it is, so a silent remainder is not iterated
exportRender(A, n, amplitude) ==
    IF n = 0 THEN [runs |-> <<>>, A |-> A]
    ELSE IF Silent(A) THEN [runs |-> <<[v |-> 0, n |-> n]>>, A |-> A]
    ELSE IF n <= BUF_SZ
         THEN LET x == exportBurst(A, n, amplitude)
              IN  [runs |-> RunsOf(x.buf, 1, n), A |-> x.A]
    ELSE LET h == BUF_SZ * (((n + 1) \div 2 + BUF_SZ - 1) \div BUF_SZ)
             x == exportRender(A, h, amplitude)
             y == exportRender(x.A, n - h, amplitude)
         IN  [runs |-> RunCat(x.runs, y.runs), A |-> y.A]

\* mutant: the export steps the live sequencer
exportStep_Live(G, s, n) ==
    LET r == exportRender(trigSequencerStep(G, s), n, G.gAmp)
    IN  [runs |-> r.runs, A |-> [r.A EXCEPT !.seqStep = (s + 1) % NUM_STEPS]]

\* one pattern step of the export: trigSequencerStep(step), then the sample loop
exportStep(G, s, n) == exportRender(trigSequencerStep(G, s), n, G.gAmp)

\* mutant: the remainder of the write buffer never flushed
exportFlush_None(frames, wbufPos) == frames

\* if (wbufPos > 0) flushBuf(): the frames in the file after the last flush
exportFlush(frames, wbufPos) == IF wbufPos > 0 THEN frames + wbufPos ELSE frames

\* the locals of exportPatternToWAV when no export runs, and the absent file
\* trigSequencerStep's locals outside a call: t the melodic track at hand, f
\* the frequency loaded for trigNote, old the cell as the > 0 test saw it,
\* n0 the number of messages received before that test; loop()'s locals
\* stepDur and now of the sequencer block; and, while synthSample(CH_LEAD)
\* runs in steps, its val and the envLvl loaded for envLvl *= envDcy
LocIdle ==
    [t |-> 0, f |-> 0, old |-> [freq |-> 0, wave |-> 0], n0 |-> 0, stepDur |-> 0, now |-> 0,
     val |-> 0, env |-> 0]

XpIdle == [numLoops |-> 0, samplesPerStep |-> 0, totalSamples |-> 0,
           loop |-> 0, step |-> 0, wbufPos |-> 0]
NoFile == [exists |-> FALSE]

-----------------------------------------------------------------------------
(* Command texts: sequences of one-character strings *)

DigitVal ==
    [c \in {"0", "1", "2", "3", "4", "5", "6", "7", "8", "9"} |->
        CASE c = "0" -> 0 [] c = "1" -> 1 [] c = "2" -> 2 [] c = "3" -> 3
          [] c = "4" -> 4 [] c = "5" -> 5 [] c = "6" -> 6 [] c = "7" -> 7
          [] c = "8" -> 8 [] c = "9" -> 9]

IsDigit(c) == c \in DOMAIN DigitVal

\* String::startsWith
startsWith(s, prefix) ==
    Len(s) >= Len(prefix) /\ SubSeq(s, 1, Len(prefix)) = prefix

\* String::substring(left) / substring(left, right), 0-based, right exclusive
substring(s, left, right) ==
    LET l == IF left > right THEN right ELSE left
        r == IF left > right THEN left ELSE right
        e == IF r > Len(s) THEN Len(s) ELSE r
    IN  IF l >= Len(s) THEN <<>> ELSE SubSeq(s, l + 1, e)

substringFrom(s, left) == substring(s, left, Len(s))

RECURSIVE indexOf(_, _, _)
\* String::indexOf(ch, fromIndex): 0-based index of the first ch at or after
\* fromIndex, -1 when there is none
indexOf(s, ch, from) ==
    IF from >= Len(s) THEN -1
    ELSE IF s[from + 1] = ch THEN from
    ELSE indexOf(s, ch, from + 1)

RECURSIVE Digits(_, _, _, _)
\* the value of up to max decimal digits of s from position i (1-based), and
\* the position after the last digit read or skipped
Digits(s, i, acc, max) ==
    IF i > Len(s) \/ ~IsDigit(s[i]) THEN [val |-> acc, next |-> i, left |-> max]
    ELSE IF max = 0 THEN Digits(s, i + 1, acc, 0)
    ELSE Digits(s, i + 1, acc * 10 + DigitVal[s[i]], max - 1)

SignLen(s) == IF Len(s) > 0 /\ s[1] \in {"-", "+"} THEN 1 ELSE 0
Signed(s, v) == IF Len(s) > 0 /\ s[1] = "-" THEN -v ELSE v

\* String::toInt (atol): optional sign, then digits up to the first other
\* character; 0 when there are none
toInt(s) == Signed(s, Digits(s, SignLen(s) + 1, 0, 9).val)

RECURSIVE Pow10(_)
Pow10(n) == IF n = 0 THEN 1 ELSE 10 * Pow10(n - 1)

\* mutant: the frequency field parsed with toInt
toFloat_Int(s) == toInt(s) * FREQ_ONE

\* String::toFloat (atof) in fixed point: integer part, then the first three
\* decimals after a '.'
toFloat(s) ==
    LET ip == Digits(s, SignLen(s) + 1, 0, 6)
        fp == IF ip.next <= Len(s) /\ s[ip.next] = "."
              THEN Digits(s, ip.next + 1, 0, 3)
              ELSE [val |-> 0, next |-> ip.next, left |-> 3]
    IN  Signed(s, ip.val * FREQ_ONE + fp.val * Pow10(fp.left))

\* the browser's number-to-text conversion in send('SEQ_SET:' + ti + ',' + s ...)
DigitChar == <<"0", "1", "2", "3", "4", "5", "6", "7", "8", "9">>

RECURSIVE NatText(_)
NatText(n) == IF n < 10 THEN <<DigitChar[n + 1]>> ELSE NatText(n \div 10) \o <<DigitChar[(n % 10) + 1]>>

Itoa(n) == IF n < 0 THEN <<"-">> \o NatText(-n) ELSE NatText(n)

RECURSIVE FracText(_, _)
\* the decimals of a fraction of m/scale, without trailing zeros
FracText(m, scale) ==
    IF m = 0 THEN <<>>
    ELSE <<DigitChar[((m * 10) \div scale) + 1]>> \o FracText((m * 10) % scale, scale)

\* a frequency (fixed point) as decimal text
Ftoa(f) ==
    LET a == IF f < 0 THEN -f ELSE f
        sign == IF f < 0 THEN <<"-">> ELSE <<>>
    IN  sign \o NatText(a \div FREQ_ONE)
             \o (IF a % FREQ_ONE = 0 THEN <<>> ELSE <<".">> \o FracText(a % FREQ_ONE, FREQ_ONE))

\* the protocol's tokens
T_PLAY == <<"P", "L", "A", "Y", ":">>
T_STOP == <<"S", "T", "O", "P">>
T_WAVE == <<"W", "A", "V", "E", ":">>
T_VOL == <<"V", "O", "L", ":">>
T_SEQ_SET == <<"S", "E", "Q", "_", "S", "E", "T", ":">>
T_SEQ_DRUM == <<"S", "E", "Q", "_", "D", "R", "U", "M", ":">>
T_SEQ_BPM == <<"S", "E", "Q", "_", "B", "P", "M", ":">>
T_SEQ_PLAY == <<"S", "E", "Q", "_", "P", "L", "A", "Y">>
T_SEQ_STOP == <<"S", "E", "Q", "_", "S", "T", "O", "P">>
T_SEQ_CLEAR == <<"S", "E", "Q", "_", "C", "L", "E", "A", "R">>

-----------------------------------------------------------------------------
(* State *)

VARIABLES
    ch,          \* Channel ch[NUM_CH]
    nlfsr,       \* uint16_t nlfsr[2]
    gAmp,        \* global amplitude
    liveWave,    \* waveform of live notes
    melPat,      \* MelStep melPat[NUM_MEL_TRK][NUM_STEPS]
    drmPat,      \* bool drmPat[NUM_DRM_TRK][NUM_STEPS]
    seqPlay,     \* sequencer running
    seqBPM,
    seqStep,
    lastStepMs,  \* reference timestamp of the step clock
    now,         \* millis()
    i2sBuf,      \* the burst last handed to i2s_write, interleaved L, R
    wsSent,      \* step index sent as STEP:n by the last loop iteration, -1 if none
    msg,         \* the text message last received by onWsEvent
    ncmd,        \* messages received so far
    calls,       \* loop iterations since the last SEQ_PLAY (since boot before one)
    trigs,       \* steps triggered by loop since the last SEQ_PLAY
    startMs,     \* millis() read by the last SEQ_PLAY
    bpmConst,    \* seqBPM has not changed since the last SEQ_PLAY
    refDur,      \* step duration in force when lastStepMs was last written
    sents,       \* STEP notifications sent by loop since the last SEQ_PLAY
    pc,          \* where loop() stands: "idle" between two iterations
    buf,         \* loop()'s local buf[], the frames synthesised so far
    loc,         \* trigSequencerStep's position and loaded values while it runs in steps
    xp,          \* exportPatternToWAV's locals while an export runs
    wav,         \* the export file on the SD card
    chunk,       \* the frames exportPatternToWAV rendered for its last pattern step, as runs
    serialOut,   \* the outcome exportPatternToWAV last printed to Serial
    twin,        \* a second export of the same pattern from another engine state
    xdirty       \* a command was applied while the running export rendered

prog == <<ch, nlfsr, gAmp, liveWave, melPat, drmPat, seqPlay, seqBPM, seqStep, lastStepMs>>
hist == <<msg, ncmd, calls, trigs, startMs, bpmConst, refDur, sents>>
lvars == <<pc, buf, loc>>
xvars == <<xp, wav, chunk, serialOut, twin, xdirty>>
vars == <<prog, now, i2sBuf, wsSent, hist, lvars, xvars>>

\* the program's globals as one record, the form the handlers work on
Globals ==
    [ch |-> ch, nlfsr |-> nlfsr, gAmp |-> gAmp, liveWave |-> liveWave,
     melPat |-> melPat, drmPat |-> drmPat, seqPlay |-> seqPlay, seqBPM |-> seqBPM,
     seqStep |-> seqStep, lastStepMs |-> lastStepMs]

Commit(G) ==
    /\ ch' = G.ch
    /\ nlfsr' = G.nlfsr
    /\ gAmp' = G.gAmp
    /\ liveWave' = G.liveWave
    /\ melPat' = G.melPat
    /\ drmPat' = G.drmPat
    /\ seqPlay' = G.seqPlay
    /\ seqBPM' = G.seqBPM
    /\ seqStep' = G.seqStep
    /\ lastStepMs' = G.lastStepMs

Tracks(n) == 0 .. (n - 1)
Steps == 0 .. (NUM_STEPS - 1)

Init ==
    /\ ch = [c \in 0 .. (NUM_CH - 1) |-> ChannelDefault]
    /\ nlfsr = [i \in {0, 1} |-> IF i = 0 THEN SEED_SNARE ELSE SEED_HAT]
    /\ gAmp = GAMP_INIT
    /\ liveWave = 0
    /\ melPat = [t \in Tracks(NUM_MEL_TRK) |-> [s \in Steps |-> MelStepDefault]]
    /\ drmPat = [t \in Tracks(NUM_DRM_TRK) |-> [s \in Steps |-> FALSE]]
    /\ seqPlay = FALSE
    /\ seqBPM = BPM_INIT
    /\ seqStep = 0
    /\ lastStepMs = 0
    /\ now = 0
    /\ i2sBuf = <<>>
    /\ wsSent = -1
    /\ msg = <<>>
    /\ ncmd = 0
    /\ calls = 0
    /\ trigs = 0
    /\ startMs = 0
    /\ bpmConst = TRUE
    /\ refDur = StepDur(BPM_INIT)
    /\ sents = 0
    /\ pc = "idle"
    /\ buf = <<>>
    /\ loc = LocIdle
    /\ xp = XpIdle
    /\ wav = NoFile
    /\ chunk = <<>>
    /\ serialOut = <<>>
    /\ twin = [ch |-> [c \in 0 .. (NUM_CH - 1) |-> ChannelDefault],
               nlfsr |-> [i \in {0, 1} |-> IF i = 0 THEN SEED_SNARE ELSE SEED_HAT],
               chunk |-> <<>>]
    /\ xdirty = FALSE

-----------------------------------------------------------------------------
(* Command decoder: onWsEvent on a text frame m, millis() reading t *)

\* mutant: out-of-range indices wrapped instead of clamped
seqSet_Wrap(G, body) ==
    LET c1 == indexOf(body, ",", 0)
        c2 == indexOf(body, ",", c1 + 1)
        c3 == indexOf(body, ",", c2 + 1)
    IN  IF c1 < 0 \/ c2 < 0 \/ c3 < 0 THEN G
        ELSE LET t == toInt(substring(body, 0, c1)) % NUM_MEL_TRK
                 s == toInt(substring(body, c1 + 1, c2)) % NUM_STEPS
                 f == toFloat(substring(body, c2 + 1, c3))
                 w == constrain(toInt(substringFrom(body, c3 + 1)), 0, 2)
             IN  [G EXCEPT !.melPat[t][s] = [freq |-> f, wave |-> w]]

\* SEQ_SET:track,step,freq,wave
seqSet(G, body) ==
    LET c1 == indexOf(body, ",", 0)
        c2 == indexOf(body, ",", c1 + 1)
        c3 == indexOf(body, ",", c2 + 1)
    IN  IF c1 < 0 \/ c2 < 0 \/ c3 < 0 THEN G
        ELSE LET t == constrain(toInt(substring(body, 0, c1)), 0, NUM_MEL_TRK - 1)
                 s == constrain(toInt(substring(body, c1 + 1, c2)), 0, NUM_STEPS - 1)
                 f == toFloat(substring(body, c2 + 1, c3))
                 w == constrain(toInt(substringFrom(body, c3 + 1)), 0, 2)
             IN  [G EXCEPT !.melPat[t][s] = [freq |-> f, wave |-> w]]

\* SEQ_DRUM:track,step,val
seqDrum(G, body) ==
    LET c1 == indexOf(body, ",", 0)
        c2 == indexOf(body, ",", c1 + 1)
    IN  IF c1 < 0 \/ c2 < 0 THEN G
        ELSE LET t == constrain(toInt(substring(body, 0, c1)), 0, NUM_DRM_TRK - 1)
                 s == constrain(toInt(substring(body, c1 + 1, c2)), 0, NUM_STEPS - 1)
             IN  [G EXCEPT !.drmPat[t][s] = (toInt(substringFrom(body, c2 + 1)) # 0)]

\* the indices t and s with which SEQ_SET subscripts melPat (ok: the body has
\* its three commas, so the cell is written)
seqSetIndex(body) ==
    LET c1 == indexOf(body, ",", 0)
        c2 == indexOf(body, ",", c1 + 1)
        c3 == indexOf(body, ",", c2 + 1)
    IN  IF c1 < 0 \/ c2 < 0 \/ c3 < 0 THEN [ok |-> FALSE, t |-> 0, s |-> 0]
        ELSE [ok |-> TRUE,
              t |-> constrain(toInt(substring(body, 0, c1)), 0, NUM_MEL_TRK - 1),
              s |-> constrain(toInt(substring(body, c1 + 1, c2)), 0, NUM_STEPS - 1)]

\* the indices t and s with which SEQ_DRUM subscripts drmPat
seqDrumIndex(body) ==
    LET c1 == indexOf(body, ",", 0)
        c2 == indexOf(body, ",", c1 + 1)
    IN  IF c1 < 0 \/ c2 < 0 THEN [ok |-> FALSE, t |-> 0, s |-> 0]
        ELSE [ok |-> TRUE,
              t |-> constrain(toInt(substring(body, 0, c1)), 0, NUM_DRM_TRK - 1),
              s |-> constrain(toInt(substring(body, c1 + 1, c2)), 0, NUM_STEPS - 1)]

seqBpm(G, body) == [G EXCEPT !.seqBPM = constrain(toInt(body), BPM_MIN, BPM_MAX)]

\* mutant: the reference timestamp not reset by a start
seqStart_KeepRef(G, t) == [G EXCEPT !.seqStep = 0, !.seqPlay = TRUE]

seqStart(G, t) == [G EXCEPT !.seqStep = 0, !.lastStepMs = t, !.seqPlay = TRUE]

\* mutant: stop hard-cuts every channel
seqStop_CutAll(G) ==
    [G EXCEPT !.seqPlay = FALSE,
              !.ch = [c \in DOMAIN G.ch |-> [G.ch[c] EXCEPT !.active = FALSE, !.envLvl = 0]]]

seqStop(G) == releaseNote(releaseNote([G EXCEPT !.seqPlay = FALSE], CH_LEAD), CH_BASS)

\* mutant: clear also stops the sequencer
seqClear_Stops(G) ==
    releaseNote(releaseNote(
        [G EXCEPT !.melPat = [tr \in Tracks(NUM_MEL_TRK) |-> [s \in Steps |-> MelStepDefault]],
                  !.drmPat = [tr \in Tracks(NUM_DRM_TRK) |-> [s \in Steps |-> FALSE]],
                  !.seqPlay = FALSE, !.seqStep = 0],
        CH_LEAD), CH_BASS)

seqClear(G) ==
    releaseNote(releaseNote(
        [G EXCEPT !.melPat = [tr \in Tracks(NUM_MEL_TRK) |-> [s \in Steps |-> MelStepDefault]],
                  !.drmPat = [tr \in Tracks(NUM_DRM_TRK) |-> [s \in Steps |-> FALSE]]],
        CH_LEAD), CH_BASS)

setWave(G, body) == [G EXCEPT !.liveWave = constrain(toInt(body), 0, 2)]

setVol(G, body) == [G EXCEPT !.gAmp = constrain(toInt(body), 0, GAMP_MAX)]

onWsEvent(G, m, t) ==
    IF startsWith(m, T_PLAY) THEN trigNote(G, CH_LEAD, toFloat(substringFrom(m, 5)), G.liveWave)
    ELSE IF m = T_STOP THEN releaseNote(G, CH_LEAD)
    ELSE IF startsWith(m, T_WAVE) THEN setWave(G, substringFrom(m, 5))
    ELSE IF startsWith(m, T_VOL) THEN setVol(G, substringFrom(m, 4))
    ELSE IF startsWith(m, T_SEQ_SET) THEN seqSet(G, substringFrom(m, 8))
    ELSE IF startsWith(m, T_SEQ_DRUM) THEN seqDrum(G, substringFrom(m, 9))
    ELSE IF startsWith(m, T_SEQ_BPM) THEN seqBpm(G, substringFrom(m, 8))
    ELSE IF m = T_SEQ_PLAY THEN seqStart(G, t)
    ELSE IF m = T_SEQ_STOP THEN seqStop(G)
    ELSE IF m = T_SEQ_CLEAR THEN seqClear(G)
    ELSE G

-----------------------------------------------------------------------------
(* Service loop: loop() at millis() reading t, with serial key k ("" = none) *)

\* mutant: strict comparison
elapsedGE_Strict(t, last, dur) == IF t >= last THEN t - last > dur ELSE TRUE

\* now - lastStepMs >= stepDur in unsigned long arithmetic: a reference ahead
\* of the clock makes the difference wrap to a huge value
elapsedGE(t, last, dur) == IF t >= last THEN t - last >= dur ELSE TRUE

\* mutant: the step counter incremented without the modulo
loopSequencer_NoWrap(G, t) ==
    LET stepDur == StepDur(G.seqBPM)
    IN  IF G.seqPlay /\ elapsedGE(t, G.lastStepMs, stepDur)
        THEN [G |-> [trigSequencerStep([G EXCEPT !.lastStepMs = @ + stepDur], G.seqStep)
                        EXCEPT !.seqStep = G.seqStep + 1],
              sent |-> G.seqStep]
        ELSE [G |-> G, sent |-> -1]

\* mutant: the reference resynchronised to the time of the call
loopSequencer_Resync(G, t) ==
    LET stepDur == StepDur(G.seqBPM)
    IN  IF G.seqPlay /\ elapsedGE(t, G.lastStepMs, stepDur)
        THEN [G |-> [trigSequencerStep([G EXCEPT !.lastStepMs = t], G.seqStep)
                        EXCEPT !.seqStep = (G.seqStep + 1) % NUM_STEPS],
              sent |-> G.seqStep]
        ELSE [G |-> G, sent |-> -1]

\* mutant: a reference that gains a millisecond on every step
loopSequencer_Slow(G, t) ==
    LET stepDur == StepDur(G.seqBPM)
    IN  IF G.seqPlay /\ elapsedGE(t, G.lastStepMs, stepDur)
        THEN [G |-> [trigSequencerStep([G EXCEPT !.lastStepMs = @ + stepDur + 1], G.seqStep)
                        EXCEPT !.seqStep = (G.seqStep + 1) % NUM_STEPS],
              sent |-> G.seqStep]
        ELSE [G |-> G, sent |-> -1]

\* mutant: the steps missed during a pause are skipped
loopSequencer_Skip(G, t) ==
    LET stepDur == StepDur(G.seqBPM)
        n == IF t >= G.lastStepMs THEN (t - G.lastStepMs) \div stepDur ELSE 1
    IN  IF G.seqPlay /\ elapsedGE(t, G.lastStepMs, stepDur)
        THEN [G |-> [trigSequencerStep([G EXCEPT !.lastStepMs = @ + n * stepDur], G.seqStep)
                        EXCEPT !.seqStep = (G.seqStep + n) % NUM_STEPS],
              sent |-> G.seqStep]
        ELSE [G |-> G, sent |-> -1]

\* mutant: a backlog of more than one step is dropped
loopSequencer_DropLate(G, t) ==
    LET stepDur == StepDur(G.seqBPM)
        next == G.lastStepMs + stepDur
        ref == IF t >= next + stepDur THEN t - stepDur ELSE next
    IN  IF G.seqPlay /\ elapsedGE(t, G.lastStepMs, stepDur)
        THEN [G |-> [trigSequencerStep([G EXCEPT !.lastStepMs = ref], G.seqStep)
                        EXCEPT !.seqStep = (G.seqStep + 1) % NUM_STEPS],
              sent |-> G.seqStep]
        ELSE [G |-> G, sent |-> -1]

\* the sequencer step advance: [G |-> globals after it, sent |-> STEP notified]
loopSequencer(G, t) ==
    LET stepDur == StepDur(G.seqBPM)
    IN  IF G.seqPlay /\ elapsedGE(t, G.lastStepMs, stepDur)
        THEN [G |-> [trigSequencerStep([G EXCEPT !.lastStepMs = @ + stepDur], G.seqStep)
                        EXCEPT !.seqStep = (G.seqStep + 1) % NUM_STEPS],
              sent |-> G.seqStep]
        ELSE [G |-> G, sent |-> -1]

\* the audio synthesis block: one burst of BUF_SZ frames
loopSynth(G) == Burst(G, BUF_SZ, G.gAmp)

\* mutant: volume keys without the min/max
loopSerial_NoClamp(G, k) ==
    CASE k = "+" -> [G EXCEPT !.gAmp = @ + GAMP_STEP]
      [] k = "-" -> [G EXCEPT !.gAmp = @ - GAMP_STEP]
      [] OTHER -> G

\* the serial menu's keys that change state
loopSerial(G, k) ==
    CASE k = "+" -> [G EXCEPT !.gAmp = IF @ + GAMP_STEP < GAMP_MAX THEN @ + GAMP_STEP ELSE GAMP_MAX]
      [] k = "-" -> [G EXCEPT !.gAmp = IF @ - GAMP_STEP > 0 THEN @ - GAMP_STEP ELSE 0]
      [] OTHER -> G

-----------------------------------------------------------------------------
(* Actions *)

\* onWsEvent receives the text frame m
Receive(m) ==
    LET G == onWsEvent(Globals, m, now)
    IN  /\ Commit(G)
        /\ msg' = m
        /\ ncmd' = ncmd + 1
        /\ calls' = IF m = T_SEQ_PLAY THEN 0 ELSE calls
        /\ trigs' = IF m = T_SEQ_PLAY THEN 0 ELSE trigs
        /\ startMs' = IF m = T_SEQ_PLAY THEN now ELSE startMs
        /\ bpmConst' = IF m = T_SEQ_PLAY THEN TRUE ELSE (bpmConst /\ G.seqBPM = seqBPM)
        /\ refDur' = IF m = T_SEQ_PLAY THEN StepDur(seqBPM) ELSE refDur
        /\ sents' = IF m = T_SEQ_PLAY THEN 0 ELSE sents
        /\ xdirty' = (xdirty \/ pc = "export")
        /\ UNCHANGED <<now, i2sBuf, wsSent, lvars, xp, wav, chunk, serialOut, twin>>

\* one iteration of loop()
Loop(k) ==
    LET q == loopSequencer(Globals, now)
        r == loopSynth(q.G)
        G == loopSerial(r.A, k)
    IN  /\ pc = "idle"
        /\ Commit(G)
        /\ i2sBuf' = r.buf
        /\ wsSent' = q.sent
        /\ calls' = calls + 1
        /\ trigs' = IF q.sent >= 0 THEN trigs + 1 ELSE trigs
        /\ sents' = IF q.sent >= 0 THEN sents + 1 ELSE sents
        /\ refDur' = IF q.sent >= 0 THEN StepDur(seqBPM) ELSE refDur
        /\ UNCHANGED <<now, msg, ncmd, startMs, bpmConst, lvars, xvars>>

\* d milliseconds pass
Tick(d) ==
    /\ now' = now + d
    /\ UNCHANGED <<prog, i2sBuf, wsSent, hist, lvars, xvars>>

-----------------------------------------------------------------------------
(* loop() statement by statement: pc names the statement to run next *)

\* mutant: the notification sent with the index already incremented
stepNotice_Next(G) == (G.seqStep + 1) % NUM_STEPS

\* the index in ws.textAll("STEP:" + String(seqStep))
stepNotice(G) == G.seqStep

\* int loops = constrain(loopsStr.toInt(), 1, 8); if (loops == 0) loops = 2;
exportLoops(text) ==
    LET loops == constrain(toInt(text), 1, MAX_LOOPS)
    IN  IF loops = 0 THEN 2 ELSE loops

\* if (seqPlay) { stepDur; now = millis(); if (now - lastStepMs >= stepDur) lastStepMs += stepDur
LoopCheck ==
    /\ pc = "idle"
    /\ LET stepDur == StepDur(seqBPM)
       IN  IF seqPlay /\ elapsedGE(now, lastStepMs, stepDur)
           THEN /\ lastStepMs' = lastStepMs + stepDur
                /\ refDur' = stepDur
                /\ pc' = "trig"
           ELSE /\ UNCHANGED <<lastStepMs, refDur>>
                /\ pc' = "synth"
    /\ wsSent' = -1
    /\ UNCHANGED <<ch, nlfsr, gAmp, liveWave, melPat, drmPat, seqPlay, seqBPM, seqStep>>
    /\ UNCHANGED <<now, i2sBuf, msg, ncmd, calls, trigs, startMs, bpmConst, sents, buf, loc, xvars>>

\* the sequencer block of loop() one access to the shared clock variables at
\* a time: if (seqPlay) { stepDur = 60000UL / seqBPM / 4; now = millis();
ClockRead ==
    /\ pc = "idle"
    /\ IF seqPlay
       THEN /\ loc' = [loc EXCEPT !.stepDur = StepDur(seqBPM), !.now = now]
            /\ pc' = "clock"
       ELSE /\ UNCHANGED loc
            /\ pc' = "synth"
    /\ wsSent' = -1
    /\ UNCHANGED <<prog, now, i2sBuf, hist, buf, xvars>>

\* if (now - lastStepMs >= stepDur), with the local now and stepDur
ClockTest ==
    /\ pc = "clock"
    /\ pc' = IF elapsedGE(loc.now, lastStepMs, loc.stepDur) THEN "add" ELSE "synth"
    /\ UNCHANGED <<prog, now, i2sBuf, wsSent, hist, buf, loc, xvars>>

\* lastStepMs += stepDur
ClockAdd ==
    /\ pc = "add"
    /\ lastStepMs' = lastStepMs + loc.stepDur
    /\ refDur' = loc.stepDur
    /\ pc' = "trig"
    /\ UNCHANGED <<ch, nlfsr, gAmp, liveWave, melPat, drmPat, seqPlay, seqBPM, seqStep>>
    /\ UNCHANGED <<now, i2sBuf, wsSent, msg, ncmd, calls, trigs, startMs, bpmConst, sents, buf, loc, xvars>>

\* trigSequencerStep(seqStep)
LoopTrig ==
    /\ pc = "trig"
    /\ Commit(trigSequencerStep(Globals, seqStep))
    /\ trigs' = trigs + 1
    /\ pc' = "notify"
    /\ UNCHANGED <<now, i2sBuf, wsSent, msg, ncmd, calls, startMs, bpmConst, refDur, sents, buf, loc, xvars>>

\* trigSequencerStep(seqStep) one access to melPat at a time: the test
\* if (melPat[t][s].freq > 0.0f), with releaseNote(c) when it fails
TrigTest ==
    /\ pc = "trig"
    /\ LET cell == melPat[loc.t][seqStep]
       IN  IF cell.freq > 0
           THEN /\ loc' = [loc EXCEPT !.old = cell, !.n0 = ncmd]
                /\ pc' = "trigFreq"
                /\ UNCHANGED prog
           ELSE /\ Commit(releaseNote(Globals, ChanOf(loc.t)))
                /\ loc' = [loc EXCEPT !.t = (@ + 1) % NUM_MEL_TRK]
                /\ pc' = IF loc.t + 1 = NUM_MEL_TRK THEN "trigDrums" ELSE "trig"
    /\ UNCHANGED <<now, i2sBuf, wsSent, hist, buf, xvars>>

\* the load of melPat[t][s].freq for the call of trigNote
TrigFreq ==
    /\ pc = "trigFreq"
    /\ loc' = [loc EXCEPT !.f = melPat[loc.t][seqStep].freq]
    /\ pc' = "trigWave"
    /\ UNCHANGED <<prog, now, i2sBuf, wsSent, hist, buf, xvars>>

\* the load of melPat[t][s].wave and trigNote(c, freq, wave)
TrigWave ==
    /\ pc = "trigWave"
    /\ Commit(trigNote(Globals, ChanOf(loc.t), loc.f, melPat[loc.t][seqStep].wave))
    /\ loc' = [loc EXCEPT !.t = (@ + 1) % NUM_MEL_TRK]
    /\ pc' = IF loc.t + 1 = NUM_MEL_TRK THEN "trigDrums" ELSE "trig"
    /\ UNCHANGED <<now, i2sBuf, wsSent, hist, buf, xvars>>

\* the three drum tests of trigSequencerStep, and its return
TrigDrums ==
    /\ pc = "trigDrums"
    /\ Commit(trigDrums(Globals, seqStep))
    /\ trigs' = trigs + 1
    /\ loc' = LocIdle
    /\ pc' = "notify"
    /\ UNCHANGED <<now, i2sBuf, wsSent, msg, ncmd, calls, startMs, bpmConst, refDur, sents, buf, xvars>>

\* ws.textAll("STEP:" + String(seqStep))
LoopNotify ==
    /\ pc = "notify"
    /\ wsSent' = stepNotice(Globals)
    /\ sents' = sents + 1
    /\ pc' = "inc"
    /\ UNCHANGED <<prog, now, i2sBuf, msg, ncmd, calls, trigs, startMs, bpmConst, refDur, buf, loc, xvars>>

\* seqStep = (seqStep + 1) % NUM_STEPS
LoopInc ==
    /\ pc = "inc"
    /\ seqStep' = (seqStep + 1) % NUM_STEPS
    /\ pc' = "synth"
    /\ UNCHANGED <<ch, nlfsr, gAmp, liveWave, melPat, drmPat, seqPlay, seqBPM, lastStepMs>>
    /\ UNCHANGED <<now, i2sBuf, wsSent, hist, buf, loc, xvars>>

\* one pass of for (i < BUF_SZ): a frame mixed, clamped and stored in buf
LoopFrame ==
    /\ pc = "synth"
    /\ LET r == Frame(Globals, gAmp)
       IN  /\ Commit(r.A)
           /\ buf' = buf \o <<r.out, r.out>>
    /\ pc' = IF Len(buf) + 2 = 2 * BUF_SZ THEN "write" ELSE "synth"
    /\ UNCHANGED <<now, i2sBuf, wsSent, hist, loc, xvars>>

\* the rest of a frame whose Lead sample is val: the other four channels,
\* the clamp and the two stores into buf
FrameRest(A, val) ==
    LET r == MixFrom(A, CH_LEAD + 1, val, A.gAmp)
    IN  /\ Commit(r.A)
        /\ buf' = buf \o << constrain(r.mix, -SAMPLE_MAX, SAMPLE_MAX),
                            constrain(r.mix, -SAMPLE_MAX, SAMPLE_MAX) >>
        /\ pc' = IF Len(buf) + 2 = 2 * BUF_SZ THEN "write" ELSE "synth"

\* synthSample(CH_LEAD) one access to the channel at a time: the test
\* if (!ch[c].active || ch[c].envLvl < 0.001f)
SampleTest ==
    /\ pc = "synth"
    /\ pc' = IF ~ch[CH_LEAD].active \/ ch[CH_LEAD].envLvl < ENV_EPS THEN "sampleOff" ELSE "sampleBody"
    /\ loc' = [loc EXCEPT !.n0 = ncmd]
    /\ UNCHANGED <<prog, now, i2sBuf, wsSent, hist, buf, xvars>>

\* ch[c].active = false; return 0; and the rest of the frame
SampleOff ==
    /\ pc = "sampleOff"
    /\ FrameRest([Globals EXCEPT !.ch[CH_LEAD].active = FALSE], 0)
    /\ loc' = LocIdle
    /\ UNCHANGED <<now, i2sBuf, wsSent, hist, xvars>>

\* amp, val, the phase and the pitch sweep, up to the envelope statement
SampleBody ==
    /\ pc = "sampleBody"
    /\ LET k == ch[CH_LEAD]
           amp == TruncDiv(gAmp * k.envLvl, NUM_CH * UNIT)
           reg == lfsrNext(nlfsr[1])
       IN  IF k.isNoise
           THEN /\ Commit([Globals EXCEPT !.nlfsr[1] = reg])
                /\ loc' = [loc EXCEPT !.val = IF reg % 2 = 1 THEN amp ELSE -amp]
           ELSE /\ Commit([Globals EXCEPT !.ch[CH_LEAD].phase = PhaseNext(k),
                                          !.ch[CH_LEAD].curFreq = FreqNext(k)])
                /\ loc' = [loc EXCEPT !.val = WaveSample(k, amp)]
    /\ pc' = "envLoad"
    /\ UNCHANGED <<now, i2sBuf, wsSent, hist, buf, xvars>>

\* ch[c].envLvl *= ch[c].envDcy: the load of envLvl
EnvLoad ==
    /\ pc = "envLoad"
    /\ loc' = [loc EXCEPT !.env = ch[CH_LEAD].envLvl]
    /\ pc' = "envStore"
    /\ UNCHANGED <<prog, now, i2sBuf, wsSent, hist, buf, xvars>>

\* ch[c].envLvl *= ch[c].envDcy: the product stored; return val; and the rest
\* of the frame
EnvStore ==
    /\ pc = "envStore"
    /\ FrameRest([Globals EXCEPT !.ch[CH_LEAD].envLvl = (loc.env * ch[CH_LEAD].envDcy) \div UNIT],
                 loc.val)
    /\ loc' = LocIdle
    /\ UNCHANGED <<now, i2sBuf, wsSent, hist, xvars>>

\* i2s_write(I2S_NUM_0, buf, sizeof(buf), &bw, portMAX_DELAY)
LoopWrite ==
    /\ pc = "write"
    /\ i2sBuf' = buf
    /\ buf' = <<>>
    /\ pc' = "serial"
    /\ UNCHANGED <<prog, now, wsSent, hist, loc, xvars>>

\* the serial menu with key k ("" = nothing to read); the iteration ends
LoopKeys(k) ==
    /\ pc = "serial"
    /\ Commit(loopSerial(Globals, k))
    /\ calls' = calls + 1
    /\ pc' = "idle"
    /\ UNCHANGED <<now, i2sBuf, wsSent, msg, ncmd, trigs, startMs, bpmConst, refDur, sents, buf, loc, xvars>>

\* key 'e': exportPatternToWAV(fname, loops) up to its render loop, with the
\* card's answer sd and, for the twin render, the engine state e
ExportBegin(text, sd, e) ==
    /\ pc = "serial"
    /\ IF exportOpen(Globals, wav, sd).opened
       THEN LET z == exportSizes(seqBPM, exportLoops(text))
            IN  /\ wav' = [exists |-> TRUE, open |-> TRUE,
                           header |-> writeWAVHeader(z.totalSamples),
                           frames |-> 0, zero |-> TRUE]
                /\ xp' = [numLoops |-> z.numLoops, samplesPerStep |-> z.samplesPerStep,
                          totalSamples |-> z.totalSamples,
                          loop |-> 0, step |-> 0, wbufPos |-> 0]
                /\ Commit(exportReset(exportOpen(Globals, wav, sd).G))
                /\ twin' = [ch |-> exportReset(e).ch, nlfsr |-> e.nlfsr, chunk |-> <<>>]
                /\ chunk' = <<>>
                /\ xdirty' = FALSE
                /\ serialOut' = Append(serialOut, "Exporting")
                /\ pc' = "export"
                /\ UNCHANGED calls
       ELSE /\ wav' = exportOpen(Globals, wav, sd).wav
            /\ Commit(exportOpen(Globals, wav, sd).G)
            /\ serialOut' = Append(serialOut, "Export failed")
            /\ calls' = calls + 1
            /\ pc' = "idle"
            /\ UNCHANGED <<xp, twin, chunk, xdirty>>
    /\ UNCHANGED <<now, i2sBuf, wsSent, msg, ncmd, trigs, startMs, bpmConst, refDur, sents, buf, loc>>

\* one pass of for (step < NUM_STEPS) of the export, flushes of the write
\* buffer included
ExportStep ==
    /\ pc = "export"
    /\ LET r == exportStep(Globals, xp.step, xp.samplesPerStep)
           t == exportStep([Globals EXCEPT !.ch = twin.ch, !.nlfsr = twin.nlfsr],
                           xp.step, xp.samplesPerStep)
           pend == xp.wbufPos + xp.samplesPerStep
           last == xp.step = NUM_STEPS - 1
       IN  /\ Commit(r.A)
           /\ chunk' = r.runs
           /\ twin' = [ch |-> t.A.ch, nlfsr |-> t.A.nlfsr, chunk |-> t.runs]
           /\ wav' = [wav EXCEPT !.frames = @ + (pend \div WBUF_SZ) * WBUF_SZ,
                                 !.zero = @ /\ \A i \in DOMAIN r.runs : r.runs[i].v = 0]
           /\ xp' = [xp EXCEPT !.wbufPos = pend % WBUF_SZ,
                               !.step = IF last THEN 0 ELSE @ + 1,
                               !.loop = IF last THEN @ + 1 ELSE @]
           /\ pc' = IF last /\ xp.loop + 1 = xp.numLoops THEN "exportEnd" ELSE "export"
    /\ UNCHANGED <<now, i2sBuf, wsSent, hist, buf, loc, serialOut, xdirty>>

\* the flush of the remainder, f.close(), and the return to loop()
ExportEnd ==
    /\ pc = "exportEnd"
    /\ wav' = [wav EXCEPT !.frames = exportFlush(@, xp.wbufPos), !.open = FALSE]
    /\ xp' = XpIdle
    /\ serialOut' = Append(serialOut, "Export complete")
    /\ calls' = calls + 1
    /\ pc' = "idle"
    /\ UNCHANGED <<prog, now, i2sBuf, wsSent, msg, ncmd, trigs, startMs, bpmConst, refDur, sents>>
    /\ UNCHANGED <<buf, loc, chunk, twin, xdirty>>

-----------------------------------------------------------------------------
(* Inputs *)

RECURSIVE Join(_)
\* the fields of a command joined by commas
Join(fs) ==
    IF Len(fs) = 0 THEN <<>>
    ELSE IF Len(fs) = 1 THEN fs[1]
    ELSE fs[1] \o <<",">> \o Join(Tail(fs))

\* the first n fields of fs
Take(fs, n) == SubSeq(fs, 1, n)

Cmd(token, fs) == token \o Join(fs)

\* bounds
MaxCmds == 4
MaxCalls == 2
MaxNow == 125
ClockMaxCmds == 3
ClockMaxCalls == 4
ClockMaxNow == 250
DecMaxCmds == 2
KnobMaxCmds == 2
KnobMaxCalls == 2
RtMaxCmds == 2
StepMaxCmds == 4
StepMaxCalls == 1
StepMaxNow == 125
KickMaxCmds == 2
KickMaxCalls == 33
KickMaxNow == 125
ExpMaxCmds == 1
ExpMaxCalls == 1
ExpMaxNow == 125
RaceMaxCmds == 1
RaceMaxCalls == 1
MixMaxCmds == 4
MixMaxCalls == 1
MixMaxNow == 125
MixMaxFrames == 7
CellMaxCmds == 3
CellMaxNow == 125
TempoMaxCmds == 2
TempoMaxCalls == 1
TempoMaxNow == 375
DecayMaxCmds == 3
DecayCmdCalls == 2
DecayMaxCalls == 130
DecayMaxNow == 125
HitMaxCmds == 3
HitMaxCalls == 1
HitMaxNow == 250
HitFrames == 64
LagMaxCmds == 2
LagMaxCalls == 6
LagMaxNow == 700
OrdMaxCmds == 2
OrdMaxCalls == 22
OrdMaxNow == 1224
StopMaxCmds == 3
StopMaxCalls == 2
StopMaxNow == 250
RefMaxCmds == 2
RefMaxCalls == 3
RefMaxNow == 250
NoteMaxCmds == 2
NoteMaxCalls == 2
NoteMaxFrames == 2
LiveMaxCmds == 3
LiveMaxCalls == 2
LiveMaxNow == 125
NoiseMaxCmds == 3
NoiseMaxCalls == 50
NoiseMaxNow == 125
BndMaxCmds == 2
BndMaxCalls == 17
BndMaxNow == 2000

\* Spec: the sequencer over a small pattern
SeqMsgs ==
    { Cmd(T_SEQ_SET, <<Itoa(0), Itoa(0), Ftoa(440 * FREQ_ONE), Itoa(1)>>),
      Cmd(T_SEQ_DRUM, <<Itoa(0), Itoa(0), Itoa(1)>>),
      Cmd(T_SEQ_DRUM, <<Itoa(1), Itoa(0), Itoa(1)>>),
      Cmd(T_PLAY, <<Ftoa(440 * FREQ_ONE)>>),
      T_SEQ_PLAY, T_SEQ_STOP, T_SEQ_CLEAR }
SeqKeys == {""}
SeqDts == {125}

WsEvent == ncmd < MaxCmds /\ \E m \in SeqMsgs : Receive(m)
LoopIter == calls < MaxCalls /\ \E k \in SeqKeys : Loop(k)
Advance == \E d \in SeqDts : now + d <= MaxNow /\ Tick(d)

Next == WsEvent \/ LoopIter \/ Advance

Spec == Init /\ [][Next]_vars

\* SpecClock: the step clock under irregular service calls and tempo changes
ClockMsgs ==
    { T_SEQ_PLAY, T_SEQ_STOP,
      Cmd(T_SEQ_BPM, <<Itoa(BPM_MAX)>>),
      Cmd(T_SEQ_BPM, <<Itoa(BPM_INIT)>>) }
ClockDts == {62, 63}

ClockWsEvent == ncmd < ClockMaxCmds /\ \E m \in ClockMsgs : Receive(m)
ClockLoopIter == calls < ClockMaxCalls /\ Loop("")
ClockAdvance == \E d \in ClockDts : now + d <= ClockMaxNow /\ Tick(d)

NextClock == ClockWsEvent \/ ClockLoopIter \/ ClockAdvance

SpecClock == Init /\ [][NextClock]_vars

\* SpecDecode: the command decoder over well-formed, out-of-range and
\* truncated command texts
DecTracks == {1, 2, -1}
DecDrumTracks == {2, 7, -1}
DecSteps == {15, 16, -3}
DecWaves == {1, 5}
DecFull == <<Itoa(1), Itoa(15), Ftoa(440 * FREQ_ONE), Itoa(2), Itoa(9)>>

SetMsg(t, s, f, w) == Cmd(T_SEQ_SET, <<Itoa(t), Itoa(s), Ftoa(f), Itoa(w)>>)
DrumMsg(t, s, v) == Cmd(T_SEQ_DRUM, <<Itoa(t), Itoa(s), Itoa(v)>>)

SetMsgs ==
    { SetMsg(t, s, 440 * FREQ_ONE, w) : t \in DecTracks, s \in DecSteps, w \in DecWaves }
    \cup { SetMsg(0, 0, 0, 2), SetMsg(0, 0, 261630, 0), SetMsg(1, 15, -5 * FREQ_ONE, -1) }
    \cup { Cmd(T_SEQ_SET, Take(DecFull, n)) : n \in 0 .. 5 }
DrumMsgs ==
    { DrumMsg(t, s, 1) : t \in DecDrumTracks, s \in DecSteps }
    \cup { DrumMsg(2, 15, 0) }
    \cup { Cmd(T_SEQ_DRUM, Take(DecFull, n)) : n \in 0 .. 2 }
ArgMsgs ==
    { Cmd(T_PLAY, <<f>>) : f \in {<<>>, Ftoa(440 * FREQ_ONE), Ftoa(-5 * FREQ_ONE)} }
    \cup { Cmd(T_WAVE, <<w>>) : w \in {<<>>, Itoa(1), Itoa(5), Itoa(-1)} }
    \cup { Cmd(T_VOL, <<v>>) : v \in {<<>>, Itoa(500), Itoa(29500), Itoa(40000), Itoa(-1)} }
    \cup { Cmd(T_SEQ_BPM, <<b>>) : b \in {<<>>, Itoa(90), Itoa(300), Itoa(5)} }
DecodeMsgs ==
    SetMsgs \cup DrumMsgs \cup ArgMsgs \cup {T_STOP, T_SEQ_PLAY, T_SEQ_STOP, T_SEQ_CLEAR}
    \cup { Cmd(T_PLAY, <<Ftoa(0)>>) }

DecWsEvent == ncmd < DecMaxCmds /\ \E m \in DecodeMsgs : Receive(m)

NextDecode == DecWsEvent

SpecDecode == Init /\ [][NextDecode]_vars

\* SpecKnobs: the volume, waveform and tempo settings under commands and the
\* serial volume keys
KnobMsgs == ArgMsgs \ { Cmd(T_PLAY, <<f>>) : f \in {<<>>, Ftoa(-5 * FREQ_ONE)} }
KnobKeys == {"+", "-"}

KnobWsEvent == ncmd < KnobMaxCmds /\ \E m \in KnobMsgs : Receive(m)
KnobLoopIter == calls < KnobMaxCalls /\ \E k \in KnobKeys : Loop(k)

NextKnobs == KnobWsEvent \/ KnobLoopIter

SpecKnobs == Init /\ [][NextKnobs]_vars

\* SpecRoundTrip: SEQ_SET on every cell of the melodic grid
RtNotes == { [f |-> 440 * FREQ_ONE, w |-> 1], [f |-> 0, w |-> 2], [f |-> 261630, w |-> 0] }
RtMsg == [t \in Tracks(NUM_MEL_TRK), s \in Steps, n \in RtNotes |-> SetMsg(t, s, n.f, n.w)]

RtWsEvent ==
    ncmd < RtMaxCmds /\ \E t \in Tracks(NUM_MEL_TRK), s \in Steps, n \in RtNotes : Receive(RtMsg[t, s, n])

NextRoundTrip == RtWsEvent

SpecRoundTrip == Init /\ [][NextRoundTrip]_vars

\* SpecSteps: loop() statement by statement over a pattern with a note, a
\* negative frequency and the three drums on step 0; commands arrive between
\* two iterations
StepMsgs ==
    { SetMsg(0, 0, 440 * FREQ_ONE, 0), SetMsg(1, 0, -5 * FREQ_ONE, 2),
      DrumMsg(0, 0, 1), DrumMsg(1, 0, 1), DrumMsg(2, 0, 1),
      Cmd(T_PLAY, <<Ftoa(440 * FREQ_ONE)>>), T_SEQ_PLAY, T_SEQ_STOP }
StepDts == {125}

StepWsEvent == pc = "idle" /\ ncmd < StepMaxCmds /\ \E m \in StepMsgs : Receive(m)
StepAdvance == pc = "idle" /\ \E d \in StepDts : now + d <= StepMaxNow /\ Tick(d)
StepLoopCheck == calls < StepMaxCalls /\ LoopCheck
StepLoopKeys == LoopKeys("")

NextSteps ==
    \/ StepWsEvent \/ StepAdvance \/ StepLoopCheck \/ LoopTrig \/ LoopNotify \/ LoopInc
    \/ LoopFrame \/ LoopWrite \/ StepLoopKeys

SpecSteps == Init /\ [][NextSteps]_vars

\* SpecKick: a Kick on step 0, followed sample by sample through its sweep
KickMsgs == { DrumMsg(0, 0, 1), T_SEQ_PLAY }
KickDts == {125}

KickWsEvent == pc = "idle" /\ ncmd < KickMaxCmds /\ \E m \in KickMsgs : Receive(m)
KickAdvance == pc = "idle" /\ \E d \in KickDts : now + d <= KickMaxNow /\ Tick(d)
KickLoopCheck == calls < KickMaxCalls /\ LoopCheck
KickLoopKeys == LoopKeys("")

NextKick ==
    \/ KickWsEvent \/ KickAdvance \/ KickLoopCheck \/ LoopTrig \/ LoopNotify \/ LoopInc
    \/ LoopFrame \/ LoopWrite \/ KickLoopKeys

SpecKick == Init /\ [][NextKick]_vars

\* SpecExport: exports of an empty pattern and of one with a Hat, from a
\* silent and from a sounding engine, with the sequencer stopped or running;
\* commands arrive between two iterations of loop()
ExpMsgs == { DrumMsg(2, 0, 1), Cmd(T_PLAY, <<Ftoa(440 * FREQ_ONE)>>), T_SEQ_PLAY }
ExpDts == {125}
ExpLoopTexts == { Itoa(1), <<>> }
SdAnswers == {"ok", "nocard", "noopen"}

\* the engine at boot
BootEngine ==
    [ch |-> [c \in 0 .. (NUM_CH - 1) |-> ChannelDefault],
     nlfsr |-> [i \in {0, 1} |-> IF i = 0 THEN SEED_SNARE ELSE SEED_HAT]]

\* the engine one burst after a step that triggered all five channels
BusyEngine ==
    Burst(trigHat(trigSnare(trigKick(
              trigNote(trigNote(BootEngine, CH_LEAD, 440 * FREQ_ONE, 1),
                       CH_BASS, 110 * FREQ_ONE, 2)))),
          BUF_SZ, GAMP_INIT).A

TwinStarts == {BusyEngine}

ExpWsEvent == pc = "idle" /\ ncmd < ExpMaxCmds /\ \E m \in ExpMsgs : Receive(m)
ExpAdvance == pc = "idle" /\ \E d \in ExpDts : now + d <= ExpMaxNow /\ Tick(d)
ExpLoopCheck == calls < ExpMaxCalls /\ LoopCheck
ExpLoopKeys == LoopKeys("")
ExpExportKey ==
    \E text \in ExpLoopTexts, sd \in SdAnswers, e \in TwinStarts : ExportBegin(text, sd, e)

NextExport ==
    \/ ExpWsEvent \/ ExpAdvance \/ ExpLoopCheck \/ LoopTrig \/ LoopNotify \/ LoopInc
    \/ LoopFrame \/ LoopWrite \/ ExpLoopKeys \/ ExpExportKey \/ ExportStep \/ ExportEnd

SpecExport == Init /\ [][NextExport]_vars

\* SpecRace: onWsEvent runs in the network task, loop() and the export it
\* calls in the main task; here a command is handled between two iterations
\* of loop() or between two pattern steps of a running export
RaceMsgs == { Cmd(T_VOL, <<Itoa(500)>>), Cmd(T_SEQ_BPM, <<Itoa(60)>>), DrumMsg(2, 15, 1) }

RaceWsEvent ==
    /\ pc \in {"idle", "export", "exportEnd"}
    /\ ncmd < RaceMaxCmds
    /\ \E m \in RaceMsgs : Receive(m)
RaceLoopCheck == calls < RaceMaxCalls /\ LoopCheck
RaceExportKey == \E text \in ExpLoopTexts, e \in TwinStarts : ExportBegin(text, "ok", e)

NextRace ==
    \/ RaceWsEvent \/ RaceLoopCheck \/ LoopFrame \/ LoopWrite \/ RaceExportKey
    \/ ExportStep \/ ExportEnd

SpecRace == Init /\ [][NextRace]_vars

\* SpecMix: the first frames of loop()'s mix with frequencies that a command
\* stores as given: below zero, and above the sample rate; within
\* MixMaxFrames frames every rendered sample still fits int16_t
MixMsgs ==
    { Cmd(T_WAVE, <<Itoa(1)>>), Cmd(T_PLAY, <<Ftoa(-440 * FREQ_ONE)>>),
      SetMsg(0, 0, 66150 * FREQ_ONE, 1), DrumMsg(0, 0, 1),
      Cmd(T_VOL, <<Itoa(30000)>>), T_SEQ_PLAY }
MixDts == {125}

MixWsEvent == pc = "idle" /\ ncmd < MixMaxCmds /\ \E m \in MixMsgs : Receive(m)
MixAdvance == pc = "idle" /\ \E d \in MixDts : now + d <= MixMaxNow /\ Tick(d)
MixLoopCheck == calls < MixMaxCalls /\ LoopCheck
MixLoopFrame == Len(buf) < 2 * MixMaxFrames /\ LoopFrame

NextMix ==
    \/ MixWsEvent \/ MixAdvance \/ MixLoopCheck \/ LoopTrig \/ LoopNotify \/ LoopInc
    \/ MixLoopFrame

SpecMix == Init /\ [][NextMix]_vars

\* SpecCell: a step trigger of track 0's cell of step 0 with one SEQ_SET or
\* SEQ_CLEAR handled by the network task between two of the trigger's
\* accesses to the cell (each handler taken as a whole)
CellMsgs ==
    { SetMsg(0, 0, 440 * FREQ_ONE, 1), SetMsg(0, 0, 220 * FREQ_ONE, 2), SetMsg(0, 0, 0, 2),
      T_SEQ_CLEAR }
CellDts == {125}

CellWsEvent ==
    /\ ncmd < CellMaxCmds
    /\ \/ pc = "idle" /\ \E m \in CellMsgs \cup {T_SEQ_PLAY} : Receive(m)
       \/ pc \in {"trigFreq", "trigWave"} /\ ncmd = loc.n0 /\ \E m \in CellMsgs : Receive(m)
CellAdvance == pc = "idle" /\ \E d \in CellDts : now + d <= CellMaxNow /\ Tick(d)

NextCell ==
    \/ CellWsEvent \/ CellAdvance \/ LoopCheck \/ TrigTest \/ TrigFreq \/ TrigWave
    \/ TrigDrums \/ LoopNotify \/ LoopInc

SpecCell == Init /\ [][NextCell]_vars

\* SpecTempo: the step clock and an export of the empty pattern at the
\* slowest and the fastest tempo and at one whose sixteenth is no whole number
\* of ms, one longest step (375 ms at BPM 40) after SEQ_PLAY
TempoBpms == {BPM_MIN, 130, BPM_MAX}
TempoMsgs == { Cmd(T_SEQ_BPM, <<Itoa(b)>>) : b \in TempoBpms } \cup { T_SEQ_PLAY }
TempoDts == {375}

TempoWsEvent == pc = "idle" /\ ncmd < TempoMaxCmds /\ \E m \in TempoMsgs : Receive(m)
TempoAdvance == pc = "idle" /\ \E d \in TempoDts : now + d <= TempoMaxNow /\ Tick(d)
TempoLoopCheck == calls < TempoMaxCalls /\ LoopCheck
TempoLoopKeys == LoopKeys("")
TempoExportKey == \E e \in TwinStarts : ExportBegin(Itoa(1), "ok", e)

NextTempo ==
    \/ TempoWsEvent \/ TempoAdvance \/ TempoLoopCheck \/ LoopTrig \/ LoopNotify \/ LoopInc
    \/ LoopFrame \/ LoopWrite \/ TempoLoopKeys \/ TempoExportKey \/ ExportStep \/ ExportEnd

SpecTempo == Init /\ [][NextTempo]_vars

\* SpecBounds: commands with track and step numbers outside the grids, then
\* the sequencer run once round the pattern, and an export; iterations of
\* loop() are taken whole, the first after boot or SEQ_PLAY also statement by
\* statement up to the export it starts. loop() is far faster than a step:
\* the clock is followed while the sequencer plays and no step is due, and of
\* the iterations made while it plays, those that find a step due
BndMsgs ==
    { SetMsg(2, 16, 0, 1), SetMsg(-1, -3, 0, 2), DrumMsg(7, 16, 1), DrumMsg(-1, -3, 1),
      T_SEQ_PLAY }
BndDts == {125}

BndWsEvent ==
    /\ pc = "idle" /\ ncmd < BndMaxCmds /\ calls = 0
    /\ \E m \in BndMsgs : Receive(m)
BndAdvance ==
    /\ pc = "idle"
    /\ seqPlay /\ ~elapsedGE(now, lastStepMs, StepDur(seqBPM))
    /\ \E d \in BndDts : now + d <= BndMaxNow /\ Tick(d)
BndLoopIter ==
    /\ calls < BndMaxCalls
    /\ seqPlay => elapsedGE(now, lastStepMs, StepDur(seqBPM))
    /\ Loop("")
BndLoopCheck == calls = 0 /\ LoopCheck
BndExportKey == \E e \in TwinStarts : ExportBegin(Itoa(1), "ok", e)

NextBounds ==
    \/ BndWsEvent \/ BndAdvance \/ BndLoopIter \/ BndLoopCheck \/ LoopTrig \/ LoopNotify
    \/ LoopInc \/ LoopFrame \/ LoopWrite \/ BndExportKey \/ ExportStep \/ ExportEnd

SpecBounds == Init /\ [][NextBounds]_vars

\* SpecLag: loop() called again and again at the tempo of boot, each iteration
\* starting at most one step duration after the one before, with the
\* sequencer started, and started again, between two iterations
LagMsgs == { T_SEQ_PLAY }
LagDts == {1, 62, 125}

\* the iteration of loop() that begins d milliseconds after the one before
LagLoop(d) ==
    LET q == loopSequencer(Globals, now + d)
        r == loopSynth(q.G)
        G == loopSerial(r.A, "")
    IN  /\ pc = "idle"
        /\ now' = now + d
        /\ Commit(G)
        /\ i2sBuf' = r.buf
        /\ wsSent' = q.sent
        /\ calls' = calls + 1
        /\ trigs' = IF q.sent >= 0 THEN trigs + 1 ELSE trigs
        /\ sents' = IF q.sent >= 0 THEN sents + 1 ELSE sents
        /\ refDur' = IF q.sent >= 0 THEN StepDur(seqBPM) ELSE refDur
        /\ UNCHANGED <<msg, ncmd, startMs, bpmConst, lvars, xvars>>

LagWsEvent == ncmd < LagMaxCmds /\ \E m \in LagMsgs : Receive(m)
LagLoopIter ==
    /\ calls < LagMaxCalls
    /\ \E d \in LagDts : d <= StepDur(seqBPM) /\ now + d <= LagMaxNow /\ LagLoop(d)

NextLag == LagWsEvent \/ LagLoopIter

SpecLag == Init /\ [][NextLag]_vars

\* SpecOrder: the sequencer started, stopped and retimed between iterations of
\* loop() that follow one another closely or after a long pause; an iteration
\* that starts in the millisecond of the one before is followed while a step
\* is overdue
OrdMsgs == { T_SEQ_PLAY, T_SEQ_STOP, Cmd(T_SEQ_BPM, <<Itoa(BPM_MAX)>>) }
OrdDts == {0, 62, 1100}

OrdWsEvent == ncmd < OrdMaxCmds /\ \E m \in OrdMsgs : Receive(m)
OrdLoopIter ==
    /\ calls < OrdMaxCalls
    /\ \E d \in OrdDts :
          /\ now + d <= OrdMaxNow
          /\ d = 0 => (seqPlay /\ elapsedGE(now, lastStepMs, StepDur(seqBPM)))
          /\ LagLoop(d)

NextOrder == OrdWsEvent \/ OrdLoopIter

SpecOrder == Init /\ [][NextOrder]_vars

\* SpecStop: onWsEvent runs in the network task; here a command is handled
\* between two iterations of loop() or, inside one, between the test of
\* seqPlay and of the clock and the call of trigSequencerStep
StopMsgs == { SetMsg(0, 0, 440 * FREQ_ONE, 1), T_SEQ_PLAY, T_SEQ_STOP }
StopDts == {125}

StopWsEvent ==
    /\ pc \in {"idle", "trig"}
    /\ ncmd < StopMaxCmds
    /\ \E m \in StopMsgs : Receive(m)
StopAdvance == pc = "idle" /\ \E d \in StopDts : now + d <= StopMaxNow /\ Tick(d)
StopLoopCheck == calls < StopMaxCalls /\ LoopCheck
StopLoopKeys == LoopKeys("")

NextStop ==
    \/ StopWsEvent \/ StopAdvance \/ StopLoopCheck \/ LoopTrig \/ LoopNotify \/ LoopInc
    \/ LoopFrame \/ LoopWrite \/ StopLoopKeys

SpecStop == Init /\ [][NextStop]_vars

\* SpecRef: onWsEvent runs in the network task; here SEQ_PLAY is handled
\* between two iterations of loop() or, inside the sequencer block, before the
\* test of the clock or before lastStepMs += stepDur, and a millisecond may
\* pass between now = millis() and the test
RefMsgs == { T_SEQ_PLAY }
RefDts == {125}

RefWsEvent ==
    /\ pc \in {"idle", "clock", "add"}
    /\ ncmd < RefMaxCmds
    /\ \E m \in RefMsgs : Receive(m)
RefAdvance ==
    \/ pc = "idle" /\ \E d \in RefDts : now + d <= RefMaxNow /\ Tick(d)
    \/ pc = "clock" /\ loc.now = now /\ now + 1 <= RefMaxNow /\ Tick(1)
RefClockRead == calls < RefMaxCalls /\ ClockRead
RefLoopKeys == LoopKeys("")

NextRef ==
    \/ RefWsEvent \/ RefAdvance \/ RefClockRead \/ ClockTest \/ ClockAdd \/ LoopTrig
    \/ LoopNotify \/ LoopInc \/ LoopFrame \/ LoopWrite \/ RefLoopKeys

SpecRef == Init /\ [][NextRef]_vars

\* SpecNote: onWsEvent runs in the network task; here PLAY or STOP is handled
\* between two iterations of loop() or between two accesses that
\* synthSample(CH_LEAD) makes to the channel (the handler taken as a whole).
\* The first frames of a burst are followed access by access, the others whole
NoteMsgs == { Cmd(T_PLAY, <<Ftoa(440 * FREQ_ONE)>>), T_STOP }

NoteWsEvent ==
    /\ pc \in {"idle", "sampleOff", "sampleBody", "envLoad", "envStore"}
    /\ ncmd < NoteMaxCmds
    /\ \E m \in NoteMsgs : Receive(m)
NoteLoopCheck == calls < NoteMaxCalls /\ LoopCheck
NoteSampleTest == Len(buf) < 2 * NoteMaxFrames /\ SampleTest
NoteLoopFrame == Len(buf) >= 2 * NoteMaxFrames /\ LoopFrame
NoteLoopKeys == LoopKeys("")

NextNote ==
    \/ NoteWsEvent \/ NoteLoopCheck \/ NoteSampleTest \/ SampleOff \/ SampleBody \/ EnvLoad
    \/ EnvStore \/ NoteLoopFrame \/ LoopWrite \/ NoteLoopKeys

SpecNote == Init /\ [][NextNote]_vars

\* SpecLive: a live note played into a running sequencer whose step 0 is a
\* rest or a note on track 0; commands arrive between two iterations of loop()
LiveMsgs ==
    { Cmd(T_PLAY, <<Ftoa(220 * FREQ_ONE)>>), SetMsg(0, 0, 440 * FREQ_ONE, 1), T_SEQ_PLAY }
LiveDts == {125}

LiveWsEvent == pc = "idle" /\ ncmd < LiveMaxCmds /\ \E m \in LiveMsgs : Receive(m)
LiveAdvance == pc = "idle" /\ \E d \in LiveDts : now + d <= LiveMaxNow /\ Tick(d)
LiveLoopCheck == calls < LiveMaxCalls /\ LoopCheck
LiveLoopKeys == LoopKeys("")

NextLive ==
    \/ LiveWsEvent \/ LiveAdvance \/ LiveLoopCheck \/ LoopTrig \/ LoopNotify \/ LoopInc
    \/ LoopFrame \/ LoopWrite \/ LiveLoopKeys

SpecLive == Init /\ [][NextLive]_vars

\* SpecNoise: a Snare and a Hat hit on step 0, set before the first iteration
\* of loop(), triggered once and rendered frame by frame until they have died
\* away; loop() is followed from the iteration that triggers step 0
NoiseMsgs == { DrumMsg(1, 0, 1), DrumMsg(2, 0, 1), T_SEQ_PLAY }
NoiseDts == {125}

NoiseWsEvent ==
    /\ pc = "idle" /\ calls = 0 /\ ncmd < NoiseMaxCmds
    /\ \E m \in NoiseMsgs : Receive(m)
NoiseAdvance == pc = "idle" /\ \E d \in NoiseDts : now + d <= NoiseMaxNow /\ Tick(d)
NoiseLoopCheck ==
    /\ calls < NoiseMaxCalls
    /\ seqPlay /\ (calls = 0 => elapsedGE(now, lastStepMs, StepDur(seqBPM)))
    /\ LoopCheck
NoiseLoopKeys == LoopKeys("")

NextNoise ==
    \/ NoiseWsEvent \/ NoiseAdvance \/ NoiseLoopCheck \/ LoopTrig \/ LoopNotify \/ LoopInc
    \/ LoopFrame \/ LoopWrite \/ NoiseLoopKeys

SpecNoise == Init /\ [][NextNoise]_vars

\* SpecHits: drum hits on step 0, triggered, rendered for a burst and, after
\* another SEQ_PLAY, triggered again while they still sound
HitMsgs == { DrumMsg(0, 0, 1), DrumMsg(1, 0, 1), DrumMsg(2, 0, 1), T_SEQ_PLAY }
HitDts == {125}

HitWsEvent == pc = "idle" /\ ncmd < HitMaxCmds /\ \E m \in HitMsgs : Receive(m)
HitAdvance == pc = "idle" /\ \E d \in HitDts : now + d <= HitMaxNow /\ Tick(d)
HitLoopCheck == calls < HitMaxCalls /\ LoopCheck
HitLoopKeys == LoopKeys("")

NextHits ==
    \/ HitWsEvent \/ HitAdvance \/ HitLoopCheck \/ LoopTrig \/ LoopNotify \/ LoopInc
    \/ LoopFrame \/ LoopWrite \/ HitLoopKeys

SpecHits == Init /\ [][NextHits]_vars

\* SpecDecay: a note or a Kick is started within the first iterations of
\* loop(), then no command arrives and loop(), which the Arduino core calls
\* forever, keeps rendering
DecayMsgs ==
    { Cmd(T_PLAY, <<Ftoa(440 * FREQ_ONE)>>), DrumMsg(0, 0, 1), T_SEQ_PLAY, T_SEQ_STOP }
DecayDts == {125}

DecayWsEvent ==
    ncmd < DecayMaxCmds /\ calls < DecayCmdCalls /\ \E m \in DecayMsgs : Receive(m)
DecayAdvance ==
    calls < DecayCmdCalls /\ \E d \in DecayDts : now + d <= DecayMaxNow /\ Tick(d)
DecayLoopIter == calls < DecayMaxCalls /\ Loop("")

NextDecay == DecayWsEvent \/ DecayAdvance \/ DecayLoopIter

SpecDecay == Init /\ [][NextDecay]_vars

\* the same with loop() never starved: WF_vars(DecayLoopIter), written out
\* with the guard of DecayLoopIter for its ENABLED and the increment of calls
\* for its step
SpecDecayFair ==
    SpecDecay /\ ([]<>(calls >= DecayMaxCalls) \/ []<><<calls' = calls + 1>>_vars)

-----------------------------------------------------------------------------
(* Properties *)

\* a step of onWsEvent / of loop()
IsWs == ncmd' = ncmd + 1
IsLoop == calls' = calls + 1
Fired == trigs' = trigs + 1

\* one sixteenth note in milliseconds (125 ms at 120 BPM)
SixteenthMs(bpm) == (60000 \div bpm) \div 4

Melodic == {CH_LEAD, CH_BASS}
Percussive == {CH_KICK, CH_SNARE, CH_HAT}
Released(k) == ~k.active /\ k.envLvl = 0
InFlight(k) == k.active /\ k.envLvl > ENV_EPS /\ k.envLvl < UNIT
Abs(x) == IF x < 0 THEN -x ELSE x
Clamp(x, lo, hi) == IF x < lo THEN lo ELSE IF x > hi THEN hi ELSE x

\* C1 (as claimed): at constant BPM, N service calls after start whose
\* cumulative elapsed time is exactly N x stepDuration trigger exactly N steps,
\* however the calls are spaced.
C1_ExactlyN ==
    [][ (IsLoop /\ seqPlay /\ bpmConst /\ now - startMs = calls' * SixteenthMs(seqBPM))
            => trigs' = calls' ]_vars

\* C1 (amended): at constant BPM a service call triggers a step exactly when
\* (k+1) x stepDuration has elapsed since start, k being the steps triggered
\* so far, and then triggers one step only; so the steps triggered never
\* exceed the calls made nor the whole step durations elapsed.
C1_AtMostN ==
    [][ (IsLoop /\ seqPlay /\ bpmConst) =>
            /\ Fired <=> now - startMs >= (trigs + 1) * SixteenthMs(seqBPM)
            /\ trigs' \in {trigs, trigs + 1}
            /\ trigs' <= calls'
            /\ trigs' * SixteenthMs(seqBPM) <= now - startMs ]_vars

\* C1 witness: two calls, two step durations elapsed, both calls triggered
C1_Witness ==
    /\ seqPlay /\ bpmConst /\ wsSent >= 0
    /\ calls = 2 /\ trigs = 2
    /\ now - startMs = 2 * SixteenthMs(seqBPM)

\* C2: at constant BPM, after k step triggers since start the reference
\* timestamp is startTime + k x stepDuration exactly, whatever the spacing of
\* the service calls.
C2_ReferenceExact ==
    (seqPlay /\ bpmConst) => lastStepMs = startMs + trigs * SixteenthMs(seqBPM)

\* C2 witness: two steps triggered, the last by a call that came late
C2_Witness ==
    /\ seqPlay /\ bpmConst /\ wsSent >= 0
    /\ trigs = 2 /\ calls > 2
    /\ now > lastStepMs

\* C3 (as claimed): the step in progress keeps the duration D that was in
\* force when the reference timestamp was last advanced: a service call
\* triggers exactly when now - T >= D, also after a set-bpm in between.
C3_OldDuration ==
    [][ (IsLoop /\ seqPlay) => (Fired <=> now - lastStepMs >= refDur) ]_vars

\* C3 (amended): a set-bpm command changes neither the reference timestamp nor
\* the current step nor the run state, and the step in progress takes the new
\* tempo: a service call triggers exactly when now - T >= D', the step
\* duration of the BPM in force at that call, and the reference advances by D'.
C3_FreshDuration ==
    [][ /\ (IsLoop /\ seqPlay) =>
              /\ Fired <=> now - lastStepMs >= SixteenthMs(seqBPM)
              /\ Fired => lastStepMs' = lastStepMs + SixteenthMs(seqBPM)
              /\ ~Fired => lastStepMs' = lastStepMs
        /\ (IsWs /\ startsWith(msg', T_SEQ_BPM)) =>
              UNCHANGED <<lastStepMs, seqStep, seqPlay, trigs>> ]_vars

\* C3 witness: started at 120 BPM, tempo raised to 240 inside the first step,
\* and that step triggered after 62 ms
C3_Witness ==
    /\ seqPlay /\ ncmd = 2 /\ msg = Cmd(T_SEQ_BPM, <<Itoa(BPM_MAX)>>)
    /\ trigs = 1 /\ wsSent = 0
    /\ lastStepMs = startMs + SixteenthMs(BPM_MAX)
    /\ now - startMs < SixteenthMs(BPM_INIT)

\* C4: sequencer-start sets running, currentStep = 0 and the reference
\* timestamp = now; the first step triggered after a start is step 0 and it
\* is not triggered before one full step duration has elapsed since the start.
C4_Start ==
    [][ /\ (IsWs /\ msg' = T_SEQ_PLAY) =>
              (seqPlay' /\ seqStep' = 0 /\ lastStepMs' = now)
        /\ (IsLoop /\ Fired /\ trigs = 0) =>
              /\ wsSent' = 0 /\ seqStep = 0 /\ seqStep' = 1
              /\ now - startMs >= SixteenthMs(seqBPM) ]_vars

\* C4 witness: a start some time after boot, then its first step
C4_Witness ==
    /\ seqPlay /\ startMs > 0 /\ trigs = 1 /\ wsSent = 0 /\ seqStep = 1
    /\ lastStepMs = startMs + SixteenthMs(seqBPM)

\* C5: sequencer-stop clears the run flag, releases Lead and Bass (inactive,
\* envelope 0) and leaves the Kick, Snare and Hat records and both noise
\* registers as they are.
C5_Stop ==
    [][ (IsWs /\ msg' = T_SEQ_STOP) =>
            /\ ~seqPlay'
            /\ \A c \in Melodic : Released(ch'[c])
            /\ \A c \in Percussive : ch'[c] = ch[c]
            /\ nlfsr' = nlfsr ]_vars

\* C5 witness: a stop while a drum rings and after Lead sounded in the last
\* burst together with it
C5_Witness ==
    /\ msg = T_SEQ_STOP /\ ~seqPlay
    /\ \E c \in Percussive : InFlight(ch[c])
    /\ ch[CH_LEAD].phase > 0 /\ Released(ch[CH_LEAD])
    /\ \E i \in DOMAIN i2sBuf : Abs(i2sBuf[i]) > gAmp \div NUM_CH

\* C6: sequencer-clear resets every melodic step to rest and every drum step
\* to off, releases Lead and Bass, and leaves the run flag, the current step,
\* the reference timestamp, the BPM and the percussive channels unchanged.
C6_Clear ==
    [][ (IsWs /\ msg' = T_SEQ_CLEAR) =>
            /\ \A t \in Tracks(NUM_MEL_TRK), s \in Steps : melPat'[t][s].freq = 0
            /\ \A t \in Tracks(NUM_DRM_TRK), s \in Steps : ~drmPat'[t][s]
            /\ \A c \in Melodic : Released(ch'[c])
            /\ \A c \in Percussive : ch'[c] = ch[c]
            /\ UNCHANGED <<seqPlay, seqStep, lastStepMs, seqBPM, nlfsr>> ]_vars

\* C6 witness: a clear while running past step 0, with a drum ringing and
\* Lead sounding in the last burst
C6_Witness ==
    /\ msg = T_SEQ_CLEAR /\ seqPlay /\ seqStep = 1
    /\ \E c \in Percussive : InFlight(ch[c])
    /\ ch[CH_LEAD].phase > 0 /\ Released(ch[CH_LEAD])
    /\ \E i \in DOMAIN i2sBuf : Abs(i2sBuf[i]) > gAmp \div NUM_CH

RECURSIVE Commas(_)
Commas(s) == IF Len(s) = 0 THEN 0 ELSE (IF Head(s) = "," THEN 1 ELSE 0) + Commas(Tail(s))

\* the comma-separated fields of the text after a token of n characters
FieldCount(m, n) == Commas(SubSeq(m, n + 1, Len(m))) + 1

Incomplete(m) ==
    \/ startsWith(m, T_SEQ_SET) /\ FieldCount(m, Len(T_SEQ_SET)) < 4
    \/ startsWith(m, T_SEQ_DRUM) /\ FieldCount(m, Len(T_SEQ_DRUM)) < 3
    \/ m \in {T_PLAY, T_WAVE, T_VOL, T_SEQ_BPM}

\* C7: a command whose required argument fields are missing (set-melodic-step
\* with fewer than four fields, set-drum-step with fewer than three, live
\* note-on, set-waveform, set-volume, set-bpm with an empty argument) is
\* dropped: patterns, channels, volume, live waveform, BPM and sequencer state
\* stay exactly as they were.
C7_Dropped ==
    [][ (IsWs /\ Incomplete(msg')) => UNCHANGED prog ]_vars

\* C8: the stored live waveform is in {0,1,2}, the global volume in
\* [0,30000] and the BPM in [40,240], so the step duration is never 0.
C8_Ranges ==
    /\ liveWave \in {0, 1, 2}
    /\ gAmp >= 0 /\ gAmp <= 30000
    /\ seqBPM >= 40 /\ seqBPM <= 240
    /\ SixteenthMs(seqBPM) > 0
    /\ StepDur(seqBPM) > 0

\* C8 witness: set-waveform(5) stored as 2, with the volume at its maximum
\* after a volume key
C8_Witness ==
    /\ msg = Cmd(T_WAVE, <<Itoa(5)>>) /\ liveWave = 2
    /\ gAmp = 30000 /\ calls >= 1 /\ ncmd = 2

\* C9: a set-melodic-step or set-drum-step with an out-of-range track or step
\* writes exactly the cell at (track clamped to the track range, step clamped
\* to [0,15]) and leaves every other pattern cell unchanged.
C9_ClampedCell ==
    [][ IsWs =>
          /\ \A t \in DecTracks, s \in DecSteps, w \in DecWaves :
                (msg' = SetMsg(t, s, 440 * FREQ_ONE, w)
                    /\ (t \notin Tracks(NUM_MEL_TRK) \/ s \notin Steps)) =>
                /\ melPat' = [melPat EXCEPT ![Clamp(t, 0, 1)][Clamp(s, 0, 15)] =
                                [freq |-> 440 * FREQ_ONE, wave |-> Clamp(w, 0, 2)]]
                /\ drmPat' = drmPat
          /\ \A t \in DecDrumTracks, s \in DecSteps :
                (msg' = DrumMsg(t, s, 1)
                    /\ (t \notin Tracks(NUM_DRM_TRK) \/ s \notin Steps)) =>
                /\ drmPat' = [drmPat EXCEPT ![Clamp(t, 0, 2)][Clamp(s, 0, 15)] = TRUE]
                /\ melPat' = melPat ]_vars

\* C9 witness: SEQ_SET:2,16,440,5 stored in cell (1,15) as (440, pulse) while
\* the cell (0,0) set before it keeps its note
C9_Witness ==
    /\ msg = SetMsg(2, 16, 440 * FREQ_ONE, 5)
    /\ melPat[1][15] = [freq |-> 440 * FREQ_ONE, wave |-> 2]
    /\ melPat[0][0].freq = 261630
    /\ ncmd = 2

\* the globals with both melodic channels sounding
Sounding(G) ==
    trigNote(trigNote(G, CH_LEAD, 440 * FREQ_ONE, 0), CH_BASS, 440 * FREQ_ONE, 0)

\* C10: for every valid (track, step), every frequency and every waveform in
\* {0,1,2}, set-melodic-step followed by reading that cell returns the same
\* (frequency, waveform); a stored frequency of 0 is a rest whatever the
\* waveform: triggering that step releases the track's sounding channel.
C10_ReadBack ==
    [][ IsWs =>
          \A t \in Tracks(NUM_MEL_TRK), s \in Steps, n \in RtNotes :
             msg' = RtMsg[t, s, n] =>
                /\ melPat'[t][s] = [freq |-> n.f, wave |-> n.w]
                /\ n.f = 0 =>
                     Released(trigSequencerStep(Sounding([Globals EXCEPT !.melPat = melPat']), s)
                                 .ch[IF t = 0 THEN CH_LEAD ELSE CH_BASS]) ]_vars

\* C10 witness: a decimal frequency on the last step of track 1 and a rest
\* with waveform 2 on the first step of track 0
C10_Witness ==
    /\ melPat[1][15] = [freq |-> 261630, wave |-> 0]
    /\ melPat[0][0] = [freq |-> 0, wave |-> 2]
    /\ msg = RtMsg[0, 0, [f |-> 0, w |-> 2]]

\* the statement of loop() that a step executes
IsTrig == pc = "trig" /\ pc' = "notify"
IsNotify == pc = "notify" /\ pc' = "inc"
IsInc == pc = "inc" /\ pc' = "synth"
IsFrame == pc = "synth" /\ Len(buf') = Len(buf) + 2

\* channel record k was just triggered with frequency f and waveform w
Triggered(k, f, w) ==
    k.active /\ k.phase = 0 /\ k.curFreq = f /\ k.waveType = w /\ k.envLvl = UNIT

\* the percussive part of a step trigger: a track with a hit fires its preset,
\* a track without one leaves its channel as it was
DrumsFired ==
    /\ IF drmPat[0][seqStep]
       THEN Triggered(ch'[CH_KICK], 200 * FREQ_ONE, 0)
            /\ ch'[CH_KICK].envDcy = 9997 /\ ch'[CH_KICK].pitchMul = 9991
            /\ ~ch'[CH_KICK].isNoise
       ELSE ch'[CH_KICK] = ch[CH_KICK]
    /\ IF drmPat[1][seqStep]
       THEN ch'[CH_SNARE].active /\ ch'[CH_SNARE].isNoise /\ ch'[CH_SNARE].envLvl = UNIT
            /\ ch'[CH_SNARE].envDcy = 9988 /\ nlfsr'[0] = 44257
       ELSE ch'[CH_SNARE] = ch[CH_SNARE] /\ nlfsr'[0] = nlfsr[0]
    /\ IF drmPat[2][seqStep]
       THEN ch'[CH_HAT].active /\ ch'[CH_HAT].isNoise /\ ch'[CH_HAT].envLvl = UNIT
            /\ ch'[CH_HAT].envDcy = 9970 /\ nlfsr'[1] = 37250
       ELSE ch'[CH_HAT] = ch[CH_HAT] /\ nlfsr'[1] = nlfsr[1]

\* C11 (as claimed): triggerStep(s) triggers the channel mapped to a melodic
\* track (active, phase 0, the step's frequency and waveform, envelope 1.0) if
\* and only if the step's frequency is nonzero and releases it otherwise; a
\* percussive track with a hit fires its preset, one without leaves its
\* channel untouched.
C11_NonZero ==
    [][ IsTrig =>
          /\ \A t \in Tracks(NUM_MEL_TRK) :
                LET cell == melPat[t][seqStep]
                IN  IF cell.freq # 0
                    THEN Triggered(ch'[ChanOf(t)], cell.freq, cell.wave)
                    ELSE Released(ch'[ChanOf(t)])
          /\ DrumsFired ]_vars

\* C11 (amended): the mapped channel is triggered if and only if the step's
\* frequency is greater than zero; a step whose stored frequency is zero or
\* negative releases the channel.  Percussive tracks as claimed.
C11_Positive ==
    [][ IsTrig =>
          /\ \A t \in Tracks(NUM_MEL_TRK) :
                LET cell == melPat[t][seqStep]
                IN  IF cell.freq > 0
                    THEN Triggered(ch'[ChanOf(t)], cell.freq, cell.wave)
                    ELSE Released(ch'[ChanOf(t)])
          /\ DrumsFired ]_vars

\* C11 witness: step 0 just triggered with (440, square) on track 0, a
\* negative frequency on track 1, a Kick hit and no Hat hit
C11_Witness ==
    /\ pc = "notify" /\ seqStep = 0
    /\ melPat[0][0] = [freq |-> 440 * FREQ_ONE, wave |-> 0]
    /\ Triggered(ch[CH_LEAD], 440 * FREQ_ONE, 0)
    /\ melPat[1][0].freq < 0 /\ Released(ch[CH_BASS])
    /\ drmPat[0][0] /\ ch[CH_KICK].envLvl = UNIT
    /\ ~drmPat[2][0] /\ ~ch[CH_HAT].active

\* this step triggers channel c: a live note-on (Lead) or a step trigger whose
\* step holds a note for c's track or a hit for c's drum
TrigOf(c) ==
    \/ IsWs /\ startsWith(msg', T_PLAY) /\ c = CH_LEAD
    \/ /\ IsTrig
       /\ \/ \E t \in Tracks(NUM_MEL_TRK) : c = ChanOf(t) /\ melPat[t][seqStep].freq > 0
          \/ \E d \in Tracks(NUM_DRM_TRK) : c = CH_KICK + d /\ drmPat[d][seqStep]

\* C12: for every channel the envelope level never increases from one
\* rendered sample to the next (a sounding channel's level strictly falls) nor
\* under any other step that is not a trigger, and every trigger (melodic,
\* Kick, Snare, Hat) sets it to exactly 1.0.
C12_Envelope ==
    [][ \A c \in 0 .. (NUM_CH - 1) :
          /\ IF TrigOf(c) THEN ch'[c].envLvl = UNIT ELSE ch'[c].envLvl <= ch[c].envLvl
          /\ (IsFrame /\ ch[c].active /\ ch[c].envLvl >= ENV_EPS) =>
                ch'[c].envLvl < ch[c].envLvl ]_vars

\* C12 witness: Lead just triggered to 1.0 by a live note-on while the Kick
\* and the Snare triggered by step 0 decay
C12_Witness ==
    /\ startsWith(msg, T_PLAY) /\ ch[CH_LEAD].envLvl = UNIT
    /\ InFlight(ch[CH_KICK]) /\ InFlight(ch[CH_SNARE])
    /\ sents = 1 /\ calls >= 1

\* the Kick channel holds a Kick (only trigKick sets a pitch multiplier # 1)
KickOn == ch[CH_KICK].pitchMul # UNIT

\* C13: after a Kick trigger the Kick frequency starts at 200 Hz and strictly
\* decreases on every rendered sample until it reaches 30 Hz; from then on it
\* stays exactly 30 Hz and never goes below the floor.
C13_KickSweep ==
    [][ /\ (IsTrig /\ drmPat[0][seqStep]) => ch'[CH_KICK].curFreq = 200 * FREQ_ONE
        /\ (IsFrame /\ KickOn /\ ch[CH_KICK].active /\ ch[CH_KICK].envLvl >= ENV_EPS) =>
              IF ch[CH_KICK].curFreq > 30 * FREQ_ONE
              THEN /\ ch'[CH_KICK].curFreq < ch[CH_KICK].curFreq
                   /\ ch'[CH_KICK].curFreq >= 30 * FREQ_ONE
              ELSE ch'[CH_KICK].curFreq = 30 * FREQ_ONE
        /\ (KickOn /\ ~IsFrame /\ ~IsTrig) => ch'[CH_KICK].curFreq = ch[CH_KICK].curFreq
        /\ KickOn => ch[CH_KICK].curFreq >= 30 * FREQ_ONE ]_vars

\* C13 witness: the Kick still sounding at exactly 30 Hz, samples after the
\* sweep reached the floor
C13_Witness ==
    /\ KickOn /\ ch[CH_KICK].active
    /\ ch[CH_KICK].curFreq = 30 * FREQ_ONE
    /\ ch[CH_KICK].envLvl < 4700 /\ ch[CH_KICK].envLvl >= ENV_EPS
    /\ pc = "synth"

\* the statements of an export
IsExportTry == pc = "serial" /\ Len(serialOut') = Len(serialOut) + 1
IsExportStep == pc = "export" /\ ~IsWs
IsExportEnd == pc = "exportEnd" /\ pc' = "idle"
LastOut == IF serialOut = <<>> THEN "" ELSE serialOut[Len(serialOut)]

AllRest ==
    /\ \A t \in Tracks(NUM_MEL_TRK), s \in Steps : melPat[t][s].freq = 0
    /\ \A t \in Tracks(NUM_DRM_TRK), s \in Steps : ~drmPat[t][s]

\* frames per sixteenth note at the given tempo
FramesPerStep(bpm) == (44100 * SixteenthMs(bpm)) \div 1000

\* C19: while running, every step trigger is followed by exactly one
\* current-step notification that carries the index of the step just
\* triggered, sent when the trigger's channel writes are in place and before
\* seqStep is incremented; nothing is notified while the sequencer is stopped.
C19_Notify ==
    [][ /\ IsTrig => (seqPlay /\ sents = trigs /\ sents' = sents)
        /\ IsNotify =>
              /\ seqPlay /\ trigs = sents + 1
              /\ trigSequencerStep(Globals, seqStep) = Globals
              /\ wsSent' = seqStep /\ seqStep' = seqStep
        /\ IsInc => (sents = trigs /\ wsSent = seqStep /\ seqStep' = (wsSent + 1) % NUM_STEPS)
        /\ ((sents' > sents) \/ ((wsSent' >= 0) /\ (wsSent' # wsSent))) => (IsNotify /\ sents' = sents + 1)
        /\ (~seqPlay /\ ~IsWs) => (wsSent' = -1 /\ sents' = sents) ]_vars

\* C19 witness: step 0 with a note and a drum hit was triggered, notified as
\* STEP:0 and then passed
C19_Witness ==
    /\ pc = "synth" /\ seqPlay /\ seqStep = 1
    /\ trigs = 1 /\ sents = 1 /\ wsSent = 0
    /\ ch[CH_LEAD].active /\ \E c \in Percussive : ch[c].active

C15_Failure ==
    [][ (IsExportTry /\ serialOut'[Len(serialOut')] = "Export failed") =>
          /\ UNCHANGED prog
          /\ UNCHANGED <<chunk, xp, i2sBuf>>
          /\ pc' = "idle" ]_vars

\* C15 witness: an export that failed in an iteration of loop() that rendered
\* the sounding Lead, which is still in flight when loop() is entered again
C15_Witness ==
    /\ LastOut = "Export failed" /\ pc = "idle"
    /\ InFlight(ch[CH_LEAD]) /\ ch[CH_LEAD].phase # 0
    /\ \E i \in DOMAIN i2sBuf : i2sBuf[i] # 0

\* C16: no statement of an export changes the live sequencer state (run flag,
\* current step, reference timestamp, BPM, pattern cells) or sends a
\* current-step notification.
C16_SeqUntouched ==
    [][ (IsExportTry \/ IsExportStep \/ IsExportEnd) =>
          UNCHANGED <<seqPlay, seqStep, lastStepMs, seqBPM, melPat, drmPat, wsSent, sents>> ]_vars

\* C16 witness: an export completed while the sequencer runs, in the
\* iteration of loop() that triggered and notified step 0
C16_Witness ==
    /\ LastOut = "Export complete" /\ pc = "idle"
    /\ seqPlay /\ seqStep = 1 /\ sents = 1 /\ wsSent = 0
    /\ lastStepMs = startMs + SixteenthMs(seqBPM)
    /\ wav.exists /\ ~wav.open /\ wav.frames >= NUM_STEPS * FramesPerStep(seqBPM)

\* C17: two exports of the same pattern at the same BPM, volume and loop
\* count, started from different channel and noise-register states, with no
\* command applied during the render, produce the same frames, pattern step
\* by pattern step.
C17_SameFrames ==
    [][ (IsExportStep /\ ~xdirty) => chunk' = twin'.chunk ]_vars

\* C17 witness: past the first pattern step of an export with a Hat on step
\* 0, the two renders agree on frames that are not all zero while their
\* Snare noise registers still differ
C17_Witness ==
    /\ pc = "export" /\ xp.step >= 1 /\ ~xdirty
    /\ drmPat[2][0] /\ ~wav.zero
    /\ twin.nlfsr[0] # nlfsr[0]
    /\ chunk = twin.chunk

\* C18: a command handled while an export is in progress changes no channel
\* record, no pattern cell, and neither the BPM nor the volume.
C18_Deferred ==
    [][ (IsWs /\ pc \in {"export", "exportEnd"}) =>
          UNCHANGED <<ch, melPat, drmPat, seqBPM, gAmp>> ]_vars

\* C20: in every reachable state the sample each channel renders has
\* magnitude at most volume/5, the sum of the five has magnitude at most the
\* volume, and the clamp to [-32767, 32767] leaves the mix as it is.
C20_NoClip ==
    /\ \A c \in 0 .. (NUM_CH - 1) :
          Abs(synthSample(Globals, c, gAmp).val) <= gAmp \div NUM_CH
    /\ Abs(MixFrom(Globals, 0, 0, gAmp).mix) <= gAmp
    /\ Frame(Globals, gAmp).out = MixFrom(Globals, 0, 0, gAmp).mix

\* C21: no channel is ever active with a frequency of exactly 0.
C21_NoZeroFreq ==
    \A c \in 0 .. (NUM_CH - 1) : ch[c].active => ch[c].curFreq # 0

IsTrigNote == pc = "trigWave" /\ pc' # "trigWave"

\* C22: when one SEQ_SET or SEQ_CLEAR is handled while trigSequencerStep reads
\* the same cell, a channel that is triggered gets a frequency and a waveform
\* that are each the cell's old or new value, and never the frequency 0.
C22_BenignRace ==
    [][ IsTrigNote =>
          LET k == ch'[ChanOf(loc.t)]
              cell == melPat[loc.t][seqStep]
          IN  /\ k.active
              /\ k.curFreq \in {loc.old.freq, cell.freq}
              /\ k.waveType \in {loc.old.wave, cell.wave}
              /\ k.curFreq # 0 ]_vars

RECURSIVE RunFrames(_)
\* the number of frames in a sequence of runs
RunFrames(r) == IF r = <<>> THEN 0 ELSE r[1].n + RunFrames(Tail(r))

IsStepDue == pc = "idle" /\ pc' = "trig"
IsExportOpen == pc = "serial" /\ pc' = "export"

\* C23: at every BPM in [40,240] the live clock advances its reference by
\* 60000 / bpm / 4 ms per step and the export takes the same duration: it
\* sizes and renders sampleRate x that duration / 1000 frames per step.
C23_StepDuration ==
    [][ /\ seqBPM \in BPM_MIN .. BPM_MAX
        /\ \A b \in BPM_MIN .. BPM_MAX :
              /\ StepDur(b) = SixteenthMs(b)
              /\ exportSizes(b, 1).samplesPerStep = (44100 * StepDur(b)) \div 1000
        /\ IsStepDue => lastStepMs' = lastStepMs + SixteenthMs(seqBPM)
        /\ IsExportOpen =>
              /\ xp'.samplesPerStep = (44100 * SixteenthMs(seqBPM)) \div 1000
              /\ xp'.totalSamples = xp'.samplesPerStep * 16 * xp'.numLoops
        /\ IsExportStep => RunFrames(chunk') = (44100 * SixteenthMs(seqBPM)) \div 1000 ]_vars

\* C23 witness: at BPM 130 the clock has advanced by 115 ms and the export
\* has rendered a step of 5071 frames
C23_Witness ==
    /\ seqBPM = 130 /\ seqPlay /\ lastStepMs = startMs + 115
    /\ pc = "export" /\ xp.step = 1 /\ xp.samplesPerStep = 5071
    /\ RunFrames(chunk) = 5071

AllInactive == \A c \in 0 .. (NUM_CH - 1) : ~ch[c].active

\* C24: a frame rendered while all five channels are inactive is 0 on both
\* stereo slots, and rendering an inactive channel returns 0 and leaves its
\* record and the noise registers as they are.
C24_Silence ==
    [][ IsFrame =>
          /\ \A c \in 0 .. (NUM_CH - 1) :
                ~ch[c].active =>
                    /\ ch'[c] = ch[c]
                    /\ synthSample(Globals, c, gAmp).val = 0
                    /\ synthSample(Globals, c, gAmp).A = Globals
          /\ ~ch[CH_SNARE].active => nlfsr'[0] = nlfsr[0]
          /\ ~ch[CH_HAT].active => nlfsr'[1] = nlfsr[1]
          /\ AllInactive =>
                /\ buf'[Len(buf')] = 0 /\ buf'[Len(buf') - 1] = 0
                /\ UNCHANGED <<ch, nlfsr>> ]_vars

\* C24 witness: a whole burst of zeros rendered after Lead, sounding at 440 Hz,
\* was released by a rest step
C24_Witness ==
    /\ pc = "write" /\ AllInactive
    /\ \A i \in DOMAIN buf : buf[i] = 0
    /\ ch[CH_LEAD].curFreq = 440 * FREQ_ONE /\ Released(ch[CH_LEAD])
    /\ trigs = 1

Quiet == AllInactive /\ \A i \in DOMAIN i2sBuf : i2sBuf[i] = 0

\* C25: once no further command arrives, with the sequencer stopped or
\* running over an all-rest, all-off pattern, every channel eventually becomes
\* inactive and all later bursts are zeros.
C25_Degrades == <>[]((~seqPlay \/ AllRest) => Quiet)

\* C25 witness: the Kick, stopped in mid-sweep, has run out and the bursts
\* are zeros
C25_Witness ==
    /\ Quiet /\ ~seqPlay /\ ~AllRest
    /\ ch[CH_KICK].curFreq < KICK_START /\ ch[CH_KICK].envLvl < ENV_EPS
    /\ ch[CH_KICK].envLvl > 0

\* C26: both noise registers hold a value below 2^15 in every reachable
\* state, and a rendered sample of an active noise channel advances its
\* register by one shift with the tap mask.
C26_FifteenBits ==
    [][ /\ \A i \in {0, 1} : nlfsr[i] < 32768 /\ nlfsr'[i] < 32768
        /\ (IsFrame /\ ch[CH_SNARE].active /\ ch[CH_SNARE].envLvl >= ENV_EPS) =>
              nlfsr'[0] = lfsrNext(nlfsr[0])
        /\ (IsFrame /\ ch[CH_HAT].active /\ ch[CH_HAT].envLvl >= ENV_EPS) =>
              nlfsr'[1] = lfsrNext(nlfsr[1]) ]_vars

RECURSIVE HitSamples(_, _, _, _)
\* the next n samples channel c renders from engine A at the given volume
HitSamples(A, c, n, amplitude) ==
    IF n = 0 THEN <<>>
    ELSE LET r == synthSample(A, c, amplitude)
         IN  <<r.val>> \o HitSamples(r.A, c, n - 1, amplitude)

\* the preset of percussive channel c fired on engine A
Hit(A, c) == IF c = CH_KICK THEN trigKick(A) ELSE IF c = CH_SNARE THEN trigSnare(A) ELSE trigHat(A)

\* C27: at constant volume the samples a percussive channel renders after its
\* trigger are the same for every trigger, whatever the channel record and
\* the noise register held before: here the same as after a trigger on an
\* engine with all five channels sounding and both registers advanced.
C27_SameHit ==
    [][ IsTrig =>
          \A c \in Percussive :
              drmPat[c - CH_KICK][seqStep] =>
                  HitSamples(Globals', c, HitFrames, gAmp)
                      = HitSamples(Hit(BusyEngine, c), c, HitFrames, gAmp) ]_vars

\* C27 witness: the Hat triggered a second time, one burst into the sound of
\* its first hit, its register back at the seed
C27_Witness ==
    /\ pc = "notify" /\ now = 250 /\ trigs = 1 /\ startMs = 125
    /\ \E i \in DOMAIN i2sBuf : i2sBuf[i] # 0
    /\ drmPat[2][0] /\ ch[CH_HAT].active /\ ch[CH_HAT].envLvl = UNIT
    /\ nlfsr[1] = SEED_HAT

\* C28: every channel's phase lies in [0, one cycle) in every reachable state.
C28_PhaseWrapped ==
    \A c \in 0 .. (NUM_CH - 1) : 0 <= ch[c].phase /\ ch[c].phase < CYCLE

MelGrid(p) == DOMAIN p = Tracks(NUM_MEL_TRK) /\ \A t \in DOMAIN p : DOMAIN p[t] = Steps
DrmGrid(p) == DOMAIN p = Tracks(NUM_DRM_TRK) /\ \A t \in DOMAIN p : DOMAIN p[t] = Steps

\* C29: seqStep is in [0,16) in every reachable state, and the command
\* decoder, the live clock and the export subscript the 2x16 melodic and the
\* 3x16 percussive grid only with a track and a step inside them.
C29_InBounds ==
    [][ /\ seqStep \in 0 .. 15 /\ seqStep' \in 0 .. 15
        /\ MelGrid(melPat') /\ DrmGrid(drmPat')
        /\ (IsWs /\ startsWith(msg', T_SEQ_SET)) =>
              LET i == seqSetIndex(substringFrom(msg', Len(T_SEQ_SET)))
              IN  /\ i.t \in 0 .. 1 /\ i.s \in 0 .. 15
                  /\ melPat' = [melPat EXCEPT ![i.t][i.s] = melPat'[i.t][i.s]]
        /\ (IsWs /\ startsWith(msg', T_SEQ_DRUM)) =>
              LET i == seqDrumIndex(substringFrom(msg', Len(T_SEQ_DRUM)))
              IN  /\ i.t \in 0 .. 2 /\ i.s \in 0 .. 15
                  /\ drmPat' = [drmPat EXCEPT ![i.t][i.s] = drmPat'[i.t][i.s]]
        /\ (IsTrig \/ wsSent' >= 0) => seqStep \in 0 .. 15
        /\ IsExportStep => xp.step \in 0 .. 15 ]_vars

\* C29 witness: SEQ_DRUM:7,16,1 has set the Hat on step 15, and the sequencer
\* has gone once round the pattern: step 15 was triggered and notified and
\* seqStep is back at 0
C29_Witness ==
    /\ drmPat[2][15] /\ seqPlay /\ trigs = 16 /\ wsSent = 15 /\ seqStep = 0
    /\ ch[CH_HAT].active

\* C30: from the same channel, noise-register and volume state, one frame of
\* the live burst and one frame of the export give the same output value (the
\* sum of the five rendered channels, clamped, in the left and the right slot)
\* and leave the channels and registers in the same state; the frame the live
\* burst appends to buf is that frame.
C30_SameFrame ==
    [][ LET l  == liveFrame(Globals, gAmp)
            e  == exportFrame(Globals, gAmp)
            s0 == synthSample(Globals, 0, gAmp)
            s1 == synthSample(s0.A, 1, gAmp)
            s2 == synthSample(s1.A, 2, gAmp)
            s3 == synthSample(s2.A, 3, gAmp)
            s4 == synthSample(s3.A, 4, gAmp)
            sum == s0.val + s1.val + s2.val + s3.val + s4.val
            out == IF sum > 32767 THEN 32767 ELSE IF sum < -32767 THEN -32767 ELSE sum
        IN  /\ l.left = e.left /\ l.right = e.right
            /\ l.A.ch = e.A.ch /\ l.A.nlfsr = e.A.nlfsr /\ l.A.gAmp = e.A.gAmp
            /\ e.left = out /\ e.right = out
            /\ e.A.ch = s4.A.ch /\ e.A.nlfsr = s4.A.nlfsr
            /\ (pc = "synth" /\ ~IsWs) =>
                  /\ buf' = buf \o <<e.left, e.right>>
                  /\ ch' = e.A.ch /\ nlfsr' = e.A.nlfsr /\ gAmp' = gAmp ]_vars

\* C30 witness: the live burst has put a sounding Kick on the output, and the
\* export has rendered the first step of the same pattern with the Kick in it
C30_Witness ==
    /\ pc = "export" /\ xp.step = 1 /\ drmPat[0][0]
    /\ \E i \in DOMAIN i2sBuf : i2sBuf[i] # 0
    /\ \E i \in DOMAIN chunk : chunk[i].v # 0

\* C31: rendering one sample of channel c changes only the record of channel
\* c and, for Snare or Hat, only that channel's own noise register: the other
\* four channel records, the other noise register, the volume, the patterns
\* and the sequencer state are as before.
C31_OwnState ==
    \A c \in 0 .. (NUM_CH - 1) :
        LET r == synthSample(Globals, c, gAmp).A
        IN  /\ \A d \in 0 .. (NUM_CH - 1) : d # c => r.ch[d] = ch[d]
            /\ c # CH_SNARE => r.nlfsr[0] = nlfsr[0]
            /\ c # CH_HAT => r.nlfsr[1] = nlfsr[1]
            /\ r.gAmp = gAmp /\ r.liveWave = liveWave
            /\ r.melPat = melPat /\ r.drmPat = drmPat
            /\ r.seqPlay = seqPlay /\ r.seqBPM = seqBPM /\ r.seqStep = seqStep
            /\ r.lastStepMs = lastStepMs

\* C31 witness: in the middle of a burst Snare and Hat both sound, each has
\* stepped its register away from the seed, and the next Snare sample steps
\* the Snare register again
C31_Witness ==
    /\ pc = "synth" /\ buf # <<>>
    /\ ch[CH_SNARE].active /\ ch[CH_SNARE].envLvl >= ENV_EPS /\ ch[CH_HAT].active
    /\ nlfsr[0] # SEED_SNARE /\ nlfsr[1] # SEED_HAT
    /\ synthSample(Globals, CH_SNARE, gAmp).A.nlfsr[0] # nlfsr[0]

\* C32: at constant BPM, with consecutive iterations of loop() at most one
\* step duration apart, the k-th step after SEQ_PLAY is triggered by the first
\* iteration at or after startMs + k * stepDur: an iteration triggers exactly
\* when its time has reached that of the next step, it leaves no step overdue,
\* and a trigger is late by less than the gap to the iteration before it.
C32_BoundedLag ==
    [][ (calls' = calls + 1 /\ seqPlay /\ bpmConst) =>
          LET D == StepDur(seqBPM)
          IN  /\ (trigs' = trigs + 1) = (now' >= startMs + (trigs + 1) * D)
              /\ trigs' \in {trigs, trigs + 1}
              /\ now' < startMs + (trigs' + 1) * D
              /\ trigs' = trigs + 1 =>
                    /\ now < startMs + trigs' * D
                    /\ now' - (startMs + trigs' * D) < now' - now
              /\ lastStepMs' = startMs + trigs' * D ]_vars

\* C32 witness: the fourth step of a run, triggered 1 ms late
C32_Witness ==
    /\ seqPlay /\ bpmConst /\ startMs > 0
    /\ trigs = 4 /\ wsSent = 3 /\ now = startMs + 4 * StepDur(seqBPM) + 1

\* C33: from a SEQ_PLAY to the next SEQ_PLAY the triggered step indices are
\* 0, 1, 2, ..., 15, 0, 1, ... in this order, none skipped and none repeated,
\* however the iterations of loop() are spaced and whatever SEQ_BPM arrives in
\* between; a stopped sequencer triggers nothing.
C33_InOrder ==
    [][ /\ (calls' = calls + 1 /\ wsSent' >= 0) =>
              /\ seqPlay
              /\ wsSent' = trigs % NUM_STEPS
              /\ trigs' = trigs + 1
              /\ seqStep' = (wsSent' + 1) % NUM_STEPS
        /\ (calls' = calls + 1 /\ wsSent' < 0) => (trigs' = trigs /\ seqStep' = seqStep)
        /\ (IsWs /\ msg' # T_SEQ_PLAY) => (trigs' = trigs /\ seqStep' = seqStep)
        /\ (IsWs /\ msg' = T_SEQ_PLAY) => (trigs' = 0 /\ seqStep' = 0) ]_vars

\* C33 witness: after SEQ_PLAY and a change of tempo the seventeenth trigger
\* is step 0 again
C33_Witness ==
    /\ seqPlay /\ ~bpmConst /\ seqBPM = BPM_MAX
    /\ trigs = NUM_STEPS + 1 /\ wsSent = 0 /\ seqStep = 1

\* C34: once SEQ_STOP has been handled, and until the next SEQ_PLAY or PLAY,
\* no pattern step is triggered and Lead and Bass stay released, also when the
\* SEQ_STOP is handled between loop()'s test of seqPlay and its call of
\* trigSequencerStep.
C34_StopHolds ==
    [][ (msg = T_SEQ_STOP /\ msg' = T_SEQ_STOP) =>
          /\ trigs' = trigs
          /\ ~ch'[CH_LEAD].active /\ ch'[CH_LEAD].envLvl = 0
          /\ ~ch'[CH_BASS].active /\ ch'[CH_BASS].envLvl = 0 ]_vars

\* C35: whenever loop() evaluates now - lastStepMs >= stepDur, lastStepMs is
\* at most now, so the unsigned difference does not wrap, under every
\* interleaving of SEQ_PLAY with the sequencer block of loop().
C35_RefNotAhead == pc = "clock" => lastStepMs <= loc.now

\* C36: under every interleaving of a PLAY command with the rendering of a
\* Lead sample, once both have completed Lead is active and its envLvl is 1.0
\* or 1.0 times one decay step.
C36_NoteKept ==
    [][ ( /\ pc \in {"sampleOff", "envStore"} /\ ~IsWs
          /\ ncmd = loc.n0 + 1 /\ startsWith(msg, T_PLAY) ) =>
            /\ ch'[CH_LEAD].active
            /\ ch'[CH_LEAD].envLvl \in {UNIT, (UNIT * DCY_NOTE) \div UNIT} ]_vars

\* C37: one iteration of loop() triggers at most one step, also when several
\* step durations have passed since the reference timestamp: it then triggers
\* one step and moves the reference on by one step duration, and so does each
\* following iteration, with no step duration between them, until the
\* reference is less than one step duration behind the clock.
C37_OnePerCall ==
    [][ (calls' = calls + 1) =>
          LET D == StepDur(seqBPM)
          IN  IF seqPlay /\ now' - lastStepMs >= D
              THEN /\ trigs' = trigs + 1 /\ wsSent' = seqStep
                   /\ seqStep' = (seqStep + 1) % NUM_STEPS
                   /\ lastStepMs' = lastStepMs + D
              ELSE /\ trigs' = trigs /\ wsSent' = -1
                   /\ seqStep' = seqStep /\ lastStepMs' = lastStepMs ]_vars

\* C37 witness: after a pause of 1100 ms three iterations in the same
\* millisecond have triggered steps 0, 1 and 2, and at least two steps are
\* still overdue
C37_Witness ==
    /\ seqPlay /\ now = startMs + 1100 /\ calls >= 3
    /\ trigs = 3 /\ wsSent = 2 /\ seqStep = 3
    /\ lastStepMs = startMs + 3 * StepDur(seqBPM)
    /\ now - lastStepMs >= 2 * StepDur(seqBPM)

\* C38: while the sequencer runs, every triggered step overwrites Lead: a note
\* started by PLAY is retriggered with the note of track 0 or, on a rest of
\* track 0, released, so no live note sounds on after a step trigger.
C38_LeadOverwritten ==
    [][ IsTrig =>
          LET cell == melPat[0][seqStep]
          IN  /\ seqPlay
              /\ IF cell.freq > 0
                 THEN Triggered(ch'[CH_LEAD], cell.freq, cell.wave)
                 ELSE Released(ch'[CH_LEAD])
              /\ ch'[CH_LEAD].active =>
                    (ch'[CH_LEAD].curFreq = cell.freq /\ ch'[CH_LEAD].waveType = cell.wave) ]_vars

\* C38 witness: PLAY:220 was the last command, its note was heard in a burst,
\* and the step trigger that followed has released Lead on the rest of step 0
C38_Witness ==
    /\ pc = "notify" /\ seqPlay /\ calls = 1 /\ startsWith(msg, T_PLAY)
    /\ \E i \in DOMAIN i2sBuf : i2sBuf[i] # 0
    /\ melPat[0][0].freq = 0
    /\ Released(ch[CH_LEAD]) /\ ch[CH_LEAD].curFreq = 220 * FREQ_ONE

\* C39: neither noise register is ever 0: from the seeds 0xACE1 and 0x9182,
\* under any sequence of triggers and rendered samples, every value a register
\* takes is nonzero and so is the value the update makes of it; and (checked
\* once, in the state after boot) the update maps no nonzero 16-bit value to 0.
C39_NonZero ==
    /\ \A i \in {0, 1} : nlfsr[i] # 0 /\ lfsrNext(nlfsr[i]) # 0
    /\ (ncmd = 0 /\ calls = 0 /\ now = 0 /\ pc = "idle") =>
          \A s \in 1 .. 65535 : lfsrNext(s) \in 1 .. 65535

\* C39 witness: Snare and Hat were triggered and rendered until both had
\* died away, their registers left far from the seeds
C39_Witness ==
    /\ pc = "idle" /\ drmPat[1][0] /\ drmPat[2][0] /\ trigs = 1
    /\ ~ch[CH_SNARE].active /\ ch[CH_SNARE].envLvl > 0 /\ ch[CH_SNARE].envLvl < ENV_EPS
    /\ ~ch[CH_HAT].active /\ ch[CH_HAT].envLvl > 0 /\ ch[CH_HAT].envLvl < ENV_EPS
    /\ nlfsr[0] # SEED_SNARE /\ nlfsr[1] # SEED_HAT

====
